---- MODULE Spec2Model ----
(***************************************************************************)
(* CF1 launchpad (cf1-core): the campaign funding state machine, the       *)
(* investment ledger, the settlement workflow (refund, token issuance      *)
(* request / confirmation, distribution) and the rate limiter that guards  *)
(* the mutating entry points, modelled from src/lib.rs, src/security.rs,   *)
(* src/state.rs, contracts/launchpad/lockup.rs and                         *)
(* contracts/launchpad/rate_limit.rs.                                      *)
(*                                                                         *)
(* A handler that returns Err leaves the store untouched (the runtime      *)
(* discards the writes of a failed call), so every handler is modelled by  *)
(* a result operator (<handler>_result: "Ok" or the name of the error the  *)
(* code returns first) and by an action that is enabled when the result is *)
(* "Ok" and applies all the writes of the handler.                         *)
(*                                                                         *)
(* Fields that no handler reads (asset details, documents, compliance      *)
(* notes, created_at / updated_at, Investment.timestamp, the hot-data and  *)
(* index caches) are left out of the records.                              *)
(***************************************************************************)
EXTENDS Integers, Sequences, FiniteSets, TLC

\* ------------------------------------------------------------------ bounds
\* Number of create_proposal calls explored.
MaxProposals == 1
\* Largest amount of untrn attached to one invest call.
MaxAmount == 3
\* Number of create_proposal calls explored by SpecIssuance.
MaxIssuanceProposals == 2
\* SpecRateLimiter: the largest max_per_window the admin sets, the
\* window_seconds the admin sets, and the last instant of a call.
MaxRateLimit == 2
RateWindow == 2
MaxRateTime == 5
\* Stand-in for u64::MAX as the width of a share count (Investment.shares,
\* FinancialTerms.total_shares): small, so that saturation is reachable.
U64_MAX == 3
\* Stand-in for u128::MAX (Uint128), far above every amount of the model.
U128_MAX == 1073741823
\* Stand-in for u64::MAX as the width of a time in seconds, far above every
\* instant of the model.
U64_SECONDS_MAX == 1073741823

\* ------------------------------------------------------- program constants
SECONDS_PER_DAY == 86400
MIN_FUNDING_PERIOD_DAYS == 7
MAX_FUNDING_PERIOD_DAYS == 120
LOCKUP_PERIOD_SECONDS == 31536000
DEFAULT_PLATFORM_FEE_BPS == 250
BASIS_POINTS == 10000
PRECISION_FACTOR == 1000
REASONABLE_DIVISOR == 1000000
MAX_REASONABLE_VALUE == U128_MAX \div REASONABLE_DIVISOR
MAX_PROPOSALS_PER_CREATOR == 10
MAX_INVESTORS_PER_PROPOSAL == 500

\* ------------------------------------------------------------- identities
Admin == "admin"
Creators == {"creator"}
Investors == {"inv1", "inv2"}
Addrs == {Admin} \cup Creators \cup Investors

\* Option<T>: None is the empty sequence, Some(v) the one-element sequence.
None == << >>
Some(v) == << v >>
IsSome(o) == Len(o) = 1
Unwrap(o) == o[1]

\* Result<T, ContractError>
Ok(v) == [ok |-> TRUE, val |-> v, err |-> "Ok"]
Err(e) == [ok |-> FALSE, val |-> 0, err |-> e]

\* The instants at which calls are made: creation time, the funding deadline
\* of a campaign created at 0, the first instant after it, and an instant
\* after the lockup of every campaign funded before its deadline.
TimePoints ==
    { 0,
      MIN_FUNDING_PERIOD_DAYS * SECONDS_PER_DAY,
      MIN_FUNDING_PERIOD_DAYS * SECONDS_PER_DAY + 1,
      MIN_FUNDING_PERIOD_DAYS * SECONDS_PER_DAY + LOCKUP_PERIOD_SECONDS }

\* Financial terms offered to create_proposal (funding_deadline is added by
\* the caller): A sells U64_MAX shares of price 1, B sells 2 shares of price 2,
\* both for a target above the price of all the shares; C sells U64_MAX
\* shares of price 1 for a target that is the price of all of them.
TermsInputs ==
    { [target_amount |-> 4, token_price |-> 1, total_shares |-> U64_MAX,
       minimum_investment |-> 1],
      [target_amount |-> 6, token_price |-> 2, total_shares |-> 2,
       minimum_investment |-> 2],
      [target_amount |-> 3, token_price |-> 1, total_shares |-> U64_MAX,
       minimum_investment |-> 1] }

\* Terms whose minimum is above the price of a share: an amount below the
\* minimum still buys a share.
MinimumTermsInputs ==
    { [target_amount |-> 4, token_price |-> 1, total_shares |-> U64_MAX,
       minimum_investment |-> 2] }

\* platform_fee_bps given to instantiate.
FeeInputs == { DEFAULT_PLATFORM_FEE_BPS, 2500 }

\* ---------------------------------------------------------------- MathGuard
\* An addition that saturates at the largest amount.
safe_add_saturating(a, b) == IF a + b > U128_MAX THEN Ok(U128_MAX) ELSE Ok(a + b)

safe_add(a, b) == IF a + b > U128_MAX THEN Err("Overflow") ELSE Ok(a + b)

safe_sub(a, b) == IF b > a THEN Err("Underflow") ELSE Ok(a - b)

safe_mul(a, b) == IF a * b > U128_MAX THEN Err("Overflow") ELSE Ok(a * b)

safe_div(a, b) == IF b = 0 THEN Err("DivisionByZero") ELSE Ok(a \div b)

\* u64::saturating_add on share counts
saturating_add(a, b) == IF a + b > U64_MAX THEN U64_MAX ELSE a + b

\* A percentage that rounds up instead of down.
calculate_percentage_rounding_up(amount, percentage_bps) ==
    LET product == safe_mul(amount, percentage_bps)
    IN  IF product.ok
        THEN safe_div(product.val + BASIS_POINTS - 1, BASIS_POINTS)
        ELSE product

calculate_percentage(amount, percentage_bps) ==
    LET product == safe_mul(amount, percentage_bps)
    IN  IF product.ok THEN safe_div(product.val, BASIS_POINTS) ELSE product

\* A share count that rounds the scaled quotient up.
calculate_shares_precise_rounding_up(investment_amount, token_price, precision_factor) ==
    IF token_price = 0 THEN Err("InvalidTokenPrice")
    ELSE LET scaled_investment == safe_mul(investment_amount, precision_factor)
         IN  IF ~scaled_investment.ok THEN scaled_investment
             ELSE LET shares_scaled == safe_div(scaled_investment.val, token_price)
                      shares_final == safe_div(shares_scaled.val + precision_factor - 1,
                                               precision_factor)
                  IN  IF ~shares_final.ok THEN shares_final
                      ELSE IF shares_final.val = 0
                           THEN Err("InvalidSharesCalculation")
                      ELSE IF shares_final.val > U64_MAX THEN Err("Overflow")
                      ELSE Ok(shares_final.val)

calculate_shares_precise(investment_amount, token_price, precision_factor) ==
    IF token_price = 0 THEN Err("InvalidTokenPrice")
    ELSE LET scaled_investment == safe_mul(investment_amount, precision_factor)
         IN  IF ~scaled_investment.ok THEN scaled_investment
             ELSE LET shares_scaled == safe_div(scaled_investment.val, token_price)
                      shares_final == safe_div(shares_scaled.val, precision_factor)
                  IN  IF ~shares_final.ok THEN shares_final
                      ELSE IF shares_final.val = 0
                           THEN Err("InvalidSharesCalculation")
                      ELSE IF shares_final.val > U64_MAX THEN Err("Overflow")
                      ELSE Ok(shares_final.val)

validate_calculation_inputs(amount, price) ==
    IF amount = 0 THEN Err("InvalidInput")
    ELSE IF price = 0 THEN Err("InvalidInput")
    ELSE IF amount > MAX_REASONABLE_VALUE \/ price > MAX_REASONABLE_VALUE
         THEN Err("InvalidInput")
    ELSE Ok(0)

calculate_shares(proposal, investment_amount) ==
    LET valid == validate_calculation_inputs(investment_amount, proposal.token_price)
    IN  IF ~valid.ok THEN valid
        ELSE calculate_shares_precise(investment_amount, proposal.token_price,
                                      PRECISION_FACTOR)

\* A count of the shares sold that forgets what was raised.
calculate_current_shares_sold_none(proposal) == 0

calculate_current_shares_sold(proposal) ==
    IF proposal.token_price = 0 THEN 0
    ELSE LET shares_value == proposal.raised_amount \div proposal.token_price
         IN  IF shares_value > U64_MAX THEN U64_MAX ELSE shares_value

\* ------------------------------------------------------------------- state
VARIABLES
    now,                  \* env.block.time.seconds() of the next call
    config,               \* CONFIG
    proposal_count,       \* PROPOSAL_COUNT
    proposals,            \* PROPOSALS: id -> Proposal
    investments,          \* INVESTMENTS: <<id, investor>> -> Investment
    proposal_investments, \* PROPOSAL_INVESTMENTS: id -> Vec<Addr>
    creators,             \* CREATORS: addr -> Creator
    creator_proposal_count, \* CREATOR_PROPOSAL_COUNT: addr -> u32
    pending_token_reply,  \* PENDING_TOKEN_REPLY: Option<id>
    token_contracts,      \* TOKEN_CONTRACTS: id -> Addr
    rate_limit_config,    \* RATE_LIMIT_CONFIG
    operation_limits,     \* OPERATION_LIMITS: operation -> OperationLimit
    user_operations,      \* USER_OPERATIONS: <<addr, operation>> -> UserOperations
    token_requests,       \* instantiate submessages the token module has not answered
    last,                 \* the call that produced the current state
    response,             \* the messages of that call's Response
    history               \* per record and campaign: what was accepted and emitted so far

vars == << now, config, proposal_count, proposals, investments,
           proposal_investments, creators, creator_proposal_count,
           pending_token_reply, token_contracts, rate_limit_config,
           operation_limits, user_operations, token_requests,
           last, response, history >>

store == << config, proposal_count, proposals, investments,
            proposal_investments, creators, creator_proposal_count,
            pending_token_reply, token_contracts, rate_limit_config,
            operation_limits, user_operations >>

ProposalIds == 1 .. MaxProposals

\* Map helpers (cw_storage_plus::Map)
Has(m, k) == k \in DOMAIN m
Save(m, k, v) == IF k \in DOMAIN m THEN [m EXCEPT ![k] = v] ELSE m @@ (k :> v)
MayLoad(m, k, default) == IF k \in DOMAIN m THEN m[k] ELSE default

EmptyMap == [k \in {} |-> 0]

\* A call: proposal_id is 0, new_status is "" and processed is empty where the
\* call has none; processed is the set of ids a sweep reports
\* (failed_proposals, unlocked_proposals). The sender is recorded ("" if
\* not) by the calls of the rate limiter's specification.
NoCall ==
    [op |-> "none", proposal_id |-> 0, new_status |-> "", result |-> "Ok",
     processed |-> {}, sender |-> ""]
Call(op, pid) == [NoCall EXCEPT !.op = op, !.proposal_id = pid]


Msg(kind, pid, to, amount, contract) ==
    [kind |-> kind, proposal_id |-> pid, to |-> to, amount |-> amount,
     contract |-> contract]
Bank == << "bank", 0 >>
\* The address the token module gives the token instantiated for request r.
TokenAddr(r) == << "token", r >>

\* history.emitted counts every message ever emitted.
Emit(h, msgs) ==
    LET new == { msgs[i] : i \in 1 .. Len(msgs) }
        count(m) == Cardinality({ i \in 1 .. Len(msgs) : msgs[i] = m })
    IN  [ m \in DOMAIN h \cup new |->
            MayLoad(h, m, 0) + (IF m \in new THEN count(m) ELSE 0) ]

\* ------------------------------------------------------------- RateLimiter
InitialOperationLimits ==
    ("create_proposal" :> [max_per_window |-> 5, window_seconds |-> 86400]) @@
    ("invest" :> [max_per_window |-> 50, window_seconds |-> 3600]) @@
    ("update_proposal" :> [max_per_window |-> 20, window_seconds |-> 3600]) @@
    ("mint_tokens" :> [max_per_window |-> 10, window_seconds |-> 86400])

DefaultRateLimitConfig ==
    [window_seconds |-> 3600, max_operations |-> 100, enabled |-> TRUE,
     excluded_operations |-> {"query", "admin_update"}]

\* A limiter that admits one call more than the limit.
check_operation_limit_off_by_one(user, operation, current_time, max_operations, window_seconds) ==
    LET key == << user, operation >>
        fresh == [window_start |-> current_time, operation_count |-> 1,
                  last_operation |-> current_time]
    IN  IF Has(user_operations, key)
           /\ current_time < user_operations[key].window_start + window_seconds
        THEN IF user_operations[key].operation_count > max_operations
             THEN Err("RateLimitExceeded")
             ELSE Ok(Save(user_operations, key,
                          [user_operations[key] EXCEPT
                             !.operation_count = @ + 1,
                             !.last_operation = current_time]))
        ELSE Ok(Save(user_operations, key, fresh))

\* Ok(the USER_OPERATIONS map after the call) or Err(RateLimitExceeded)
check_operation_limit(user, operation, current_time, max_operations, window_seconds) ==
    LET key == << user, operation >>
    IN  IF Has(user_operations, key)
        THEN LET user_ops == user_operations[key]
             IN  IF current_time < user_ops.window_start + window_seconds
                 THEN IF user_ops.operation_count >= max_operations
                      THEN Err("RateLimitExceeded")
                      ELSE Ok(Save(user_operations, key,
                                   [user_ops EXCEPT
                                      !.operation_count = @ + 1,
                                      !.last_operation = current_time]))
                 ELSE Ok(Save(user_operations, key,
                              [window_start |-> current_time,
                               operation_count |-> 1,
                               last_operation |-> current_time]))
        ELSE Ok(Save(user_operations, key,
                     [window_start |-> current_time,
                      operation_count |-> 1,
                      last_operation |-> current_time]))

check_rate_limit(user, operation) ==
    IF ~rate_limit_config.enabled THEN Ok(user_operations)
    ELSE IF operation \in rate_limit_config.excluded_operations
         THEN Ok(user_operations)
    ELSE IF Has(operation_limits, operation)
         THEN check_operation_limit(user, operation, now,
                                    operation_limits[operation].max_per_window,
                                    operation_limits[operation].window_seconds)
    ELSE check_operation_limit(user, operation, now,
                               rate_limit_config.max_operations,
                               rate_limit_config.window_seconds)

record_operation(user, operation) == check_rate_limit(user, operation)

\* ------------------------------------------------- state transition table
validate_proposal_state_transition(current_status, new_status, proposal, time) ==
    IF current_status = "Active" /\ new_status = "Funded"
    THEN IF ~proposal.is_funded THEN Err("InvalidInput") ELSE Ok(0)
    ELSE IF current_status = "Active" /\ new_status = "Failed"
    THEN IF time <= proposal.funding_deadline THEN Err("InvalidInput") ELSE Ok(0)
    ELSE IF current_status = "Active" /\ new_status = "Cancelled"
    THEN Ok(0)
    ELSE IF current_status = "Funded" /\ new_status = "Completed"
    THEN IF ~proposal.tokens_minted THEN Err("InvalidInput") ELSE Ok(0)
    ELSE Err("InvalidInput")

\* ----------------------------------------------------------------- Init
Init ==
    /\ now = 0
    /\ config \in [admin : {Admin}, platform_fee_bps : FeeInputs,
                   min_funding_period_days : {MIN_FUNDING_PERIOD_DAYS},
                   max_funding_period_days : {MAX_FUNDING_PERIOD_DAYS},
                   lockup_period_seconds : {LOCKUP_PERIOD_SECONDS}]
    /\ proposal_count = 0
    /\ proposals = EmptyMap
    /\ investments = EmptyMap
    /\ proposal_investments = EmptyMap
    /\ creators = EmptyMap
    /\ creator_proposal_count = EmptyMap
    /\ pending_token_reply = None
    /\ token_contracts = EmptyMap
    /\ rate_limit_config = DefaultRateLimitConfig
    /\ operation_limits = InitialOperationLimits
    /\ user_operations = EmptyMap
    /\ token_requests = {}
    /\ last = NoCall
    /\ response = << >>
    /\ history = [contributions |-> EmptyMap, emitted |-> EmptyMap]

\* Time passes between calls; the clock of the model starts with the first
\* proposal (no handler reads the time elapsed before it).
Tick ==
    /\ proposal_count > 0
    /\ \E t \in TimePoints : t > now /\ now' = t
    /\ last' = NoCall
    /\ response' = << >>
    /\ UNCHANGED << store, token_requests, history >>

\* ------------------------------------------------------ create_proposal
\* The builds of the contract: with overflow checks an arithmetic overflow
\* panics and the call is aborted, without them the result wraps.
OverflowChecks == BOOLEAN

\* a - b over u64 seconds when b > a, in a build that wraps.
wrapping_sub(a, b) == (U64_SECONDS_MAX - (b - a)) + 1

\* (financial_terms.funding_deadline - current_time) / (24 * 60 * 60)
funding_duration_days(overflow_checks, funding_deadline, current_time) ==
    IF funding_deadline >= current_time
    THEN Ok((funding_deadline - current_time) \div SECONDS_PER_DAY)
    ELSE IF overflow_checks THEN Err("Panic")
    ELSE Ok(wrapping_sub(funding_deadline, current_time) \div SECONDS_PER_DAY)

\* A creation that does not look at the creator's count.
execute_create_proposal_result_uncapped(overflow_checks, sender, terms, funding_deadline) ==
    LET duration == funding_duration_days(overflow_checks, funding_deadline, now)
    IN  IF ~record_operation(sender, "create_proposal").ok THEN "RateLimitExceeded"
        ELSE IF ~duration.ok THEN duration.err
        ELSE IF duration.val < config.min_funding_period_days
             THEN "FundingPeriodTooShort"
        ELSE IF duration.val > config.max_funding_period_days
             THEN "FundingPeriodTooLong"
        ELSE IF terms.target_amount = 0 THEN "InvalidTargetAmount"
        ELSE IF terms.token_price = 0 THEN "InvalidTokenPrice"
        ELSE IF terms.total_shares = 0 THEN "InvalidTotalShares"
        ELSE "Ok"

\* The result of execute_create_proposal in the build.
execute_create_proposal_result(overflow_checks, sender, terms, funding_deadline) ==
    LET duration == funding_duration_days(overflow_checks, funding_deadline, now)
    IN  IF ~record_operation(sender, "create_proposal").ok THEN "RateLimitExceeded"
        ELSE IF MayLoad(creator_proposal_count, sender, 0) >= MAX_PROPOSALS_PER_CREATOR
             THEN "MaxProposalsExceeded"
        ELSE IF ~duration.ok THEN duration.err
        ELSE IF duration.val < config.min_funding_period_days
             THEN "FundingPeriodTooShort"
        ELSE IF duration.val > config.max_funding_period_days
             THEN "FundingPeriodTooLong"
        ELSE IF terms.target_amount = 0 THEN "InvalidTargetAmount"
        ELSE IF terms.token_price = 0 THEN "InvalidTokenPrice"
        ELSE IF terms.total_shares = 0 THEN "InvalidTotalShares"
        ELSE "Ok"

execute_create_proposal(sender, terms, funding_deadline) ==
    LET count == proposal_count + 1
        proposal ==
            [creator |-> sender,
             target_amount |-> terms.target_amount,
             token_price |-> terms.token_price,
             total_shares |-> terms.total_shares,
             minimum_investment |-> terms.minimum_investment,
             funding_deadline |-> funding_deadline,
             raised_amount |-> 0,
             investor_count |-> 0,
             is_funded |-> FALSE,
             tokens_minted |-> FALSE,
             lockup_end |-> None,
             status |-> "Active"]
    IN  /\ \E overflow_checks \in OverflowChecks :
               execute_create_proposal_result(
                   overflow_checks, sender, terms, funding_deadline) = "Ok"
        /\ user_operations' = record_operation(sender, "create_proposal").val
        /\ proposals' = Save(proposals, count, proposal)
        /\ proposal_count' = count
        /\ creator_proposal_count' =
               Save(creator_proposal_count, sender,
                    MayLoad(creator_proposal_count, sender, 0) + 1)
        /\ creators' =
               IF ~Has(creators, sender)
               THEN Save(creators, sender,
                         [total_raised |-> 0, successful_proposals |-> 0,
                          total_proposals |-> 1])
               ELSE [creators EXCEPT ![sender].total_proposals = @ + 1]
        /\ last' = Call("create_proposal", count)
        /\ response' = << >>
        /\ UNCHANGED << now, config, investments, proposal_investments,
                        pending_token_reply, token_contracts, rate_limit_config,
                        operation_limits, token_requests, history >>

\* ------------------------------------------------------ update_proposal
\* An update the admin may make too.
execute_update_proposal_result_for_admin_too(sender, proposal_id) ==
    IF ~Has(proposals, proposal_id) THEN "NotFound"
    ELSE IF proposals[proposal_id].creator # sender /\ config.admin # sender
         THEN "Unauthorized"
    ELSE IF proposals[proposal_id].status # "Active" THEN "ProposalNotActive"
    ELSE "Ok"

execute_update_proposal_result(sender, proposal_id) ==
    IF ~Has(proposals, proposal_id) THEN "NotFound"
    ELSE IF proposals[proposal_id].creator # sender THEN "Unauthorized"
    ELSE IF proposals[proposal_id].status # "Active" THEN "ProposalNotActive"
    ELSE "Ok"

execute_update_proposal(sender, proposal_id) ==
    /\ execute_update_proposal_result(sender, proposal_id) = "Ok"
    /\ last' = Call("update_proposal", proposal_id)
    /\ response' = << >>
    /\ UNCHANGED << now, store, token_requests, history >>

\* ------------------------------------------------------ cancel_proposal
execute_cancel_proposal_result(sender, proposal_id) ==
    IF ~Has(proposals, proposal_id) THEN "NotFound"
    ELSE LET proposal == proposals[proposal_id]
         IN  IF proposal.creator # sender /\ config.admin # sender
             THEN "Unauthorized"
             ELSE IF proposal.status # "Active" THEN "ProposalNotActive"
             ELSE validate_proposal_state_transition(
                      proposal.status, "Cancelled", proposal, now).err

\* A cancellation that also writes off what was raised.
cancelled_proposal_with_nothing_raised(proposal) ==
    [proposal EXCEPT !.status = "Cancelled", !.raised_amount = 0]

\* The proposal as execute_cancel_proposal saves it.
cancelled_proposal(proposal) == [proposal EXCEPT !.status = "Cancelled"]

execute_cancel_proposal(sender, proposal_id) ==
    /\ execute_cancel_proposal_result(sender, proposal_id) = "Ok"
    /\ proposals' =
           [proposals EXCEPT ![proposal_id] = cancelled_proposal(@)]
    /\ last' = Call("cancel_proposal", proposal_id)
    /\ response' = << >>
    /\ UNCHANGED << now, config, proposal_count, investments,
                    proposal_investments, creators, creator_proposal_count,
                    pending_token_reply, token_contracts, rate_limit_config,
                    operation_limits, user_operations, token_requests, history >>


\* --------------------------------------------------------------- invest
\* Investment written by execute_invest for a first contribution.
new_investment(investment_amount, shares) ==
    [amount |-> investment_amount, shares |-> shares, status |-> "Pending"]

\* A repeated contribution whose amount replaces the amount on record.
updated_investment_replacing_amount(investment, investment_amount, shares) ==
    [investment EXCEPT
        !.amount = investment_amount,
        !.shares = saturating_add(investment.shares, shares)]

\* A repeated contribution whose shares replace the shares on record.
updated_investment_overwriting(investment, investment_amount, shares) ==
    [investment EXCEPT
        !.amount = safe_add(investment.amount, investment_amount).val,
        !.shares = shares]

\* Investment written by execute_invest for a repeated contribution.
updated_investment(investment, investment_amount, shares) ==
    [investment EXCEPT
        !.amount = safe_add(investment.amount, investment_amount).val,
        !.shares = saturating_add(investment.shares, shares)]

\* A funding test that needs more than the target.
funded_proposal_strictly_above(proposal, raised) ==
    IF raised > proposal.target_amount
    THEN [proposal EXCEPT
            !.raised_amount = raised,
            !.is_funded = TRUE,
            !.status = "Funded",
            !.lockup_end = Some(now + config.lockup_period_seconds)]
    ELSE [proposal EXCEPT !.raised_amount = raised]

\* The proposal as execute_invest saves it (before the investor is counted).
funded_proposal(proposal, raised) ==
    IF raised >= proposal.target_amount
    THEN [proposal EXCEPT
            !.raised_amount = raised,
            !.is_funded = TRUE,
            !.status = "Funded",
            !.lockup_end = Some(now + config.lockup_period_seconds)]
    ELSE [proposal EXCEPT !.raised_amount = raised]

\* A minimum that is not enforced.
below_minimum_never(proposal, investment_amount) == FALSE

\* investment_amount < proposal.financial_terms.minimum_investment
below_minimum(proposal, investment_amount) ==
    investment_amount < proposal.minimum_investment

execute_invest_result(sender, proposal_id, investment_amount) ==
    IF ~record_operation(sender, "invest").ok THEN "RateLimitExceeded"
    ELSE IF ~Has(proposals, proposal_id) THEN "NotFound"
    ELSE
    LET proposal == proposals[proposal_id]
        shares == calculate_shares(proposal, investment_amount)
        total_shares_after_investment ==
            saturating_add(calculate_current_shares_sold(proposal), shares.val)
        investment_key == << proposal_id, sender >>
        raised == safe_add(proposal.raised_amount, investment_amount)
        reached == raised.ok /\ raised.val >= proposal.target_amount
    IN  IF proposal.status # "Active" THEN "ProposalNotActive"
        ELSE IF now > proposal.funding_deadline THEN "FundingDeadlinePassed"
        ELSE IF proposal.is_funded THEN "ProposalAlreadyFunded"
        ELSE IF investment_amount = 0 THEN "InsufficientFunds"
        ELSE IF below_minimum(proposal, investment_amount)
             THEN "InvestmentBelowMinimum"
        ELSE IF ~shares.ok THEN shares.err
        ELSE IF total_shares_after_investment > proposal.total_shares
             THEN "InvestmentExceedsAvailable"
        ELSE IF ~Has(investments, investment_key)
                /\ proposal.investor_count >= MAX_INVESTORS_PER_PROPOSAL
             THEN "MaxInvestorsExceeded"
        ELSE IF Has(investments, investment_key)
                /\ ~safe_add(investments[investment_key].amount, investment_amount).ok
             THEN "Overflow"
        ELSE IF ~raised.ok THEN "Overflow"
        ELSE IF reached
                /\ ~validate_proposal_state_transition(
                       proposal.status, "Funded",
                       [proposal EXCEPT !.is_funded = TRUE], now).ok
             THEN "InvalidInput"
        ELSE IF reached
                /\ ~safe_add(creators[proposal.creator].total_raised, raised.val).ok
             THEN "Overflow"
        ELSE "Ok"

execute_invest(sender, proposal_id, investment_amount) ==
    /\ execute_invest_result(sender, proposal_id, investment_amount) = "Ok"
    /\ LET proposal == proposals[proposal_id]
           shares == calculate_shares(proposal, investment_amount).val
           investment_key == << proposal_id, sender >>
           investors == MayLoad(proposal_investments, proposal_id, << >>)
           listed == \E i \in 1 .. Len(investors) : investors[i] = sender
           raised == safe_add(proposal.raised_amount, investment_amount).val
           saved == funded_proposal(proposal, raised)
       IN  /\ user_operations' = record_operation(sender, "invest").val
           /\ IF Has(investments, investment_key)
              THEN /\ investments' =
                          [investments EXCEPT ![investment_key] =
                              updated_investment(@, investment_amount, shares)]
                   /\ proposal_investments' = proposal_investments
                   /\ proposals' = [proposals EXCEPT ![proposal_id] = saved]
              ELSE /\ investments' =
                          Save(investments, investment_key,
                               new_investment(investment_amount, shares))
                   /\ proposal_investments' =
                          Save(proposal_investments, proposal_id,
                               IF listed THEN investors
                               ELSE Append(investors, sender))
                   /\ proposals' =
                          [proposals EXCEPT ![proposal_id] =
                              [saved EXCEPT !.investor_count =
                                  IF listed THEN @ ELSE @ + 1]]
           /\ creators' =
                  IF raised >= proposal.target_amount
                  THEN [creators EXCEPT ![proposal.creator] =
                          [@ EXCEPT
                             !.total_raised = safe_add(@, raised).val,
                             !.successful_proposals = @ + 1]]
                  ELSE creators
           /\ history' =
                  [history EXCEPT !.contributions =
                      Save(@, investment_key,
                           Append(MayLoad(@, investment_key, << >>),
                                  investment_amount))]
    /\ last' = Call("invest", proposal_id)
    /\ response' = << >>
    /\ UNCHANGED << now, config, proposal_count, creator_proposal_count,
                    pending_token_reply, token_contracts, rate_limit_config,
                    operation_limits, token_requests >>

\* ------------------------------------------------------ refund_investors
\* Investors of the proposal, in list order, whose record satisfies `keep`.
RECURSIVE SelectInvestors(_, _, _)
SelectInvestors(proposal_id, investors, wanted) ==
    IF investors = << >> THEN << >>
    ELSE LET investor == Head(investors)
             rest == SelectInvestors(proposal_id, Tail(investors), wanted)
         IN  IF Has(investments, << proposal_id, investor >>)
                /\ investments[<< proposal_id, investor >>].status = wanted
             THEN << investor >> \o rest
             ELSE rest

PendingInvestors(proposal_id) ==
    SelectInvestors(proposal_id,
                    MayLoad(proposal_investments, proposal_id, << >>), "Pending")

\* A refund that leaves the record as it found it.
refunded_status_left_pending == "Pending"

\* The status execute_refund_investors gives a record it refunds.
refunded_status == "Refunded"

\* A refund that fails the campaign whatever its status.
refunded_proposal_status_always_failed(status) == "Failed"

\* The status execute_refund_investors leaves the proposal in: an Active
\* proposal (past its deadline) becomes Failed, a Failed or Cancelled one stays.
refunded_proposal_status(status) == IF status = "Active" THEN "Failed" ELSE status

\* The bank message execute_refund_investors builds for one investor.
refund_msg(proposal_id, investor) ==
    Msg("refund", proposal_id, investor,
        investments[<< proposal_id, investor >>].amount, Bank)

\* Refunds that go on from a Funded campaign too.
refundable_statuses_with_funded == {"Failed", "Cancelled", "Funded"}

\* Statuses from which execute_refund_investors goes on without a transition.
refundable_statuses == {"Failed", "Cancelled"}

\* A refund that does not look for investments to refund.
execute_refund_investors_result_unchecked(sender, proposal_id) ==
    IF ~Has(proposals, proposal_id) THEN "NotFound"
    ELSE
    LET proposal == proposals[proposal_id]
    IN  IF sender # proposal.creator /\ sender # config.admin THEN "Unauthorized"
        ELSE IF proposal.status \notin refundable_statuses \cup {"Active"}
             THEN "ProposalNotActive"
        ELSE IF proposal.status = "Active" /\ now <= proposal.funding_deadline
             THEN "FundingDeadlinePassed"
        ELSE IF proposal.status = "Active"
                /\ ~validate_proposal_state_transition(
                       proposal.status, "Failed", proposal, now).ok
             THEN "InvalidInput"
        ELSE "Ok"

execute_refund_investors_result(sender, proposal_id) ==
    IF ~Has(proposals, proposal_id) THEN "NotFound"
    ELSE
    LET proposal == proposals[proposal_id]
    IN  IF sender # proposal.creator /\ sender # config.admin THEN "Unauthorized"
        ELSE IF proposal.status \notin refundable_statuses \cup {"Active"}
             THEN "ProposalNotActive"
        ELSE IF proposal.status = "Active" /\ now <= proposal.funding_deadline
             THEN "FundingDeadlinePassed"
        ELSE IF proposal.status = "Active"
                /\ ~validate_proposal_state_transition(
                       proposal.status, "Failed", proposal, now).ok
             THEN "InvalidInput"
        ELSE IF MayLoad(proposal_investments, proposal_id, << >>) = << >>
             THEN "NoInvestmentsToRefund"
        ELSE IF PendingInvestors(proposal_id) = << >>
             THEN "NoInvestmentsToRefund"
        ELSE "Ok"

execute_refund_investors(sender, proposal_id) ==
    /\ execute_refund_investors_result(sender, proposal_id) = "Ok"
    /\ LET proposal == proposals[proposal_id]
           pending == PendingInvestors(proposal_id)
           refunded == { pending[i] : i \in 1 .. Len(pending) }
           refund_messages ==
               [ i \in 1 .. Len(pending) |-> refund_msg(proposal_id, pending[i]) ]
       IN  /\ investments' =
                  [ k \in DOMAIN investments |->
                      IF k[1] = proposal_id /\ k[2] \in refunded
                      THEN [investments[k] EXCEPT !.status = refunded_status]
                      ELSE investments[k] ]
           /\ proposals' =
                  [proposals EXCEPT ![proposal_id] =
                      [@ EXCEPT
                         !.status = refunded_proposal_status(proposal.status),
                         !.raised_amount = 0]]
           /\ response' = refund_messages
           /\ history' = [history EXCEPT !.emitted = Emit(@, refund_messages)]
    /\ last' = Call("refund_investors", proposal_id)
    /\ UNCHANGED << now, config, proposal_count, proposal_investments, creators,
                    creator_proposal_count, pending_token_reply, token_contracts,
                    rate_limit_config, operation_limits, user_operations,
                    token_requests >>


\* ----------------------------------------------------------- mint_tokens
\* A request that does not look at tokens_minted.
execute_mint_tokens_result_ignoring_minted(sender, proposal_id) ==
    IF ~record_operation(sender, "mint_tokens").ok THEN "RateLimitExceeded"
    ELSE IF ~Has(proposals, proposal_id) THEN "NotFound"
    ELSE
    LET proposal == proposals[proposal_id]
    IN  IF sender # proposal.creator /\ sender # config.admin THEN "Unauthorized"
        ELSE IF ~proposal.is_funded THEN "ProposalNotFunded"
        ELSE IF proposal.status # "Funded" THEN "ProposalNotFunded"
        ELSE "Ok"

execute_mint_tokens_result(sender, proposal_id) ==
    IF ~record_operation(sender, "mint_tokens").ok THEN "RateLimitExceeded"
    ELSE IF ~Has(proposals, proposal_id) THEN "NotFound"
    ELSE
    LET proposal == proposals[proposal_id]
    IN  IF sender # proposal.creator /\ sender # config.admin THEN "Unauthorized"
        ELSE IF ~proposal.is_funded THEN "ProposalNotFunded"
        ELSE IF proposal.tokens_minted THEN "TokensAlreadyMinted"
        ELSE IF proposal.status # "Funded" THEN "ProposalNotFunded"
        ELSE "Ok"

\* PENDING_TOKEN_REPLY after execute_mint_tokens stored the proposal id.
save_pending_token_reply(pending, proposal_id) == Some(proposal_id)

execute_mint_tokens(sender, proposal_id) ==
    /\ execute_mint_tokens_result(sender, proposal_id) = "Ok"
    /\ user_operations' = record_operation(sender, "mint_tokens").val
    /\ pending_token_reply' =
           save_pending_token_reply(pending_token_reply, proposal_id)
    /\ proposals' = [proposals EXCEPT ![proposal_id].tokens_minted = TRUE]
    /\ token_requests' = token_requests \cup {proposal_id}
    /\ last' = Call("mint_tokens", proposal_id)
    /\ response' = << >>
    /\ UNCHANGED << now, config, proposal_count, investments,
                    proposal_investments, creators, creator_proposal_count,
                    token_contracts, rate_limit_config, operation_limits,
                    history >>

\* ------------------------------------------------------------------ reply
\* A clean-up that leaves the stored proposal id in place.
remove_pending_token_reply_keeping(pending) == pending

\* PENDING_TOKEN_REPLY after handle_token_instantiate_reply removed it.
remove_pending_token_reply(pending) == None

handle_token_instantiate_reply_result ==
    IF ~IsSome(pending_token_reply) THEN "NotFound"
    ELSE IF ~Has(proposals, Unwrap(pending_token_reply)) THEN "NotFound"
    ELSE "Ok"

\* The token module answers the instantiate submessage of request r with the
\* address of the token it created; a reply the handler rejects is not
\* delivered again.
handle_token_instantiate_reply(r) ==
    /\ r \in token_requests
    /\ token_requests' = token_requests \ {r}
    /\ response' = << >>
    /\ IF handle_token_instantiate_reply_result = "Ok"
       THEN LET proposal_id == Unwrap(pending_token_reply)
            IN  /\ token_contracts' = Save(token_contracts, proposal_id, TokenAddr(r))
                /\ proposals' =
                       [proposals EXCEPT ![proposal_id].lockup_end =
                           Some(now + LOCKUP_PERIOD_SECONDS)]
                /\ pending_token_reply' =
                       remove_pending_token_reply(pending_token_reply)
                /\ last' = Call("reply", r)
       ELSE /\ last' = [Call("reply", r) EXCEPT
                           !.result = handle_token_instantiate_reply_result]
            /\ UNCHANGED << token_contracts, proposals, pending_token_reply >>
    /\ UNCHANGED << now, config, proposal_count, investments,
                    proposal_investments, creators, creator_proposal_count,
                    rate_limit_config, operation_limits, user_operations,
                    history >>

\* ------------------------------------------------------ distribute_tokens
\* A load that yields an empty address where none is recorded.
load_token_contract_or_default(proposal_id) ==
    Ok(MayLoad(token_contracts, proposal_id, ""))

\* TOKEN_CONTRACTS.load(proposal_id)
load_token_contract(proposal_id) ==
    IF Has(token_contracts, proposal_id)
    THEN Ok(token_contracts[proposal_id])
    ELSE Err("NotFound")

\* A mint of the amount paid in instead of the share count.
mint_msg_of_amount(proposal_id, investor) ==
    Msg("mint", proposal_id, investor,
        investments[<< proposal_id, investor >>].amount,
        load_token_contract(proposal_id).val)

\* The mint message execute_distribute_tokens builds for one investor.
mint_msg(proposal_id, investor) ==
    Msg("mint", proposal_id, investor,
        investments[<< proposal_id, investor >>].shares,
        load_token_contract(proposal_id).val)

\* The status execute_distribute_tokens gives a record it mints for.
distributed_status == "Completed"

\* (platform_fee, creator_amount) of execute_distribute_tokens
platform_fee_of(raised_amount) ==
    calculate_percentage(raised_amount, config.platform_fee_bps)

creator_amount_of(raised_amount) ==
    safe_sub(raised_amount, platform_fee_of(raised_amount).val)

\* The bank messages that release the funds, in the order of the Response.
payout_msgs(proposal_id) ==
    LET proposal == proposals[proposal_id]
        platform_fee == platform_fee_of(proposal.raised_amount).val
        creator_amount == creator_amount_of(proposal.raised_amount).val
    IN  (IF creator_amount # 0
         THEN << Msg("creator_payout", proposal_id, proposal.creator,
                     creator_amount, Bank) >>
         ELSE << >>)
        \o
        (IF platform_fee # 0
         THEN << Msg("platform_fee", proposal_id, config.admin,
                     platform_fee, Bank) >>
         ELSE << >>)

execute_distribute_tokens_result(sender, proposal_id) ==
    IF ~Has(proposals, proposal_id) THEN "NotFound"
    ELSE
    LET proposal == proposals[proposal_id]
        pending == PendingInvestors(proposal_id)
    IN  IF sender # proposal.creator /\ sender # config.admin THEN "Unauthorized"
        ELSE IF proposal.status # "Funded" THEN "ProposalNotFunded"
        ELSE IF ~proposal.tokens_minted THEN "TokensNotMinted"
        ELSE IF ~proposal.is_funded THEN "ProposalNotFunded"
        ELSE IF proposal.raised_amount = 0 THEN "InvalidInput"
        ELSE IF ~load_token_contract(proposal_id).ok THEN "NotFound"
        ELSE IF MayLoad(proposal_investments, proposal_id, << >>) = << >>
             THEN "NoInvestmentsToRefund"
        ELSE IF \E i \in 1 .. Len(pending) :
                    investments[<< proposal_id, pending[i] >>].shares = 0
             THEN "InvalidInput"
        ELSE IF pending = << >> THEN "NoInvestmentsToRefund"
        ELSE IF ~validate_proposal_state_transition(
                    proposal.status, "Completed", proposal, now).ok
             THEN "InvalidInput"
        ELSE IF ~platform_fee_of(proposal.raised_amount).ok THEN "Overflow"
        ELSE IF ~creator_amount_of(proposal.raised_amount).ok THEN "Underflow"
        ELSE "Ok"

execute_distribute_tokens(sender, proposal_id) ==
    /\ execute_distribute_tokens_result(sender, proposal_id) = "Ok"
    /\ LET pending == PendingInvestors(proposal_id)
           minted == { pending[i] : i \in 1 .. Len(pending) }
           mint_messages ==
               [ i \in 1 .. Len(pending) |-> mint_msg(proposal_id, pending[i]) ]
           response_messages == mint_messages \o payout_msgs(proposal_id)
       IN  /\ investments' =
                  [ k \in DOMAIN investments |->
                      IF k[1] = proposal_id /\ k[2] \in minted
                      THEN [investments[k] EXCEPT !.status = distributed_status]
                      ELSE investments[k] ]
           /\ proposals' = [proposals EXCEPT ![proposal_id].status = "Completed"]
           /\ response' = response_messages
           /\ history' = [history EXCEPT !.emitted = Emit(@, response_messages)]
    /\ last' = Call("distribute_tokens", proposal_id)
    /\ UNCHANGED << now, config, proposal_count, proposal_investments, creators,
                    creator_proposal_count, pending_token_reply, token_contracts,
                    rate_limit_config, operation_limits, user_operations,
                    token_requests >>

\* ------------------------------------------------ process_expired_proposals
execute_process_expired_proposals_result(sender) ==
    IF sender # config.admin THEN "Unauthorized" ELSE "Ok"

\* A sweep that collects a proposal at its deadline already.
proposals_to_process_at_deadline ==
    { id \in DOMAIN proposals :
        /\ proposals[id].status = "Active"
        /\ now >= proposals[id].funding_deadline
        /\ ~proposals[id].is_funded }

\* The proposals the sweep collects.
proposals_to_process ==
    { id \in DOMAIN proposals :
        /\ proposals[id].status = "Active"
        /\ now > proposals[id].funding_deadline
        /\ ~proposals[id].is_funded }

\* What the sweep writes into a Pending record of a proposal it fails.
expired_investment(investment) == [investment EXCEPT !.status = "Refunded"]

execute_process_expired_proposals(sender) ==
    /\ execute_process_expired_proposals_result(sender) = "Ok"
    /\ \A id \in proposals_to_process :
           validate_proposal_state_transition(
               proposals[id].status, "Failed", proposals[id], now).ok
    /\ proposals' =
           [ id \in DOMAIN proposals |->
               IF id \in proposals_to_process
               THEN [proposals[id] EXCEPT !.status = "Failed"]
               ELSE proposals[id] ]
    /\ investments' =
           [ k \in DOMAIN investments |->
               IF k[1] \in proposals_to_process
                  /\ investments[k].status = "Pending"
               THEN expired_investment(investments[k])
               ELSE investments[k] ]
    /\ last' = [Call("process_expired_proposals", 0) EXCEPT
                   !.processed = proposals_to_process]
    /\ response' = << >>
    /\ UNCHANGED << now, config, proposal_count, proposal_investments, creators,
                    creator_proposal_count, pending_token_reply, token_contracts,
                    rate_limit_config, operation_limits, user_operations,
                    token_requests, history >>

\* -------------------------------------------------- process_expired_lockups
\* The proposals whose lockup the sweep finds expired.
expired_lockups ==
    { id \in DOMAIN proposals :
        /\ proposals[id].status = "Funded"
        /\ IsSome(proposals[id].lockup_end)
        /\ now >= Unwrap(proposals[id].lockup_end) }

process_expired_lockups(sender) ==
    /\ proposals' =
           [ id \in DOMAIN proposals |->
               IF id \in expired_lockups
               THEN [proposals[id] EXCEPT !.status = "Completed"]
               ELSE proposals[id] ]
    /\ last' = [Call("process_expired_lockups", 0) EXCEPT
                   !.processed = expired_lockups]
    /\ response' = << >>
    /\ UNCHANGED << now, config, proposal_count, investments,
                    proposal_investments, creators, creator_proposal_count,
                    pending_token_reply, token_contracts, rate_limit_config,
                    operation_limits, user_operations, token_requests, history >>

\* -------------------------------------------------------- specification
Next ==
    \/ Tick
    \/ /\ proposal_count < MaxProposals
       /\ \E sender \in Creators, terms \in TermsInputs :
              execute_create_proposal(
                  sender, terms, now + MIN_FUNDING_PERIOD_DAYS * SECONDS_PER_DAY)
    \/ \E sender \in Addrs, id \in ProposalIds :
           execute_update_proposal(sender, id)
    \/ \E sender \in Addrs, id \in ProposalIds :
           execute_cancel_proposal(sender, id)
    \/ \E sender \in Investors, id \in ProposalIds, amount \in 0 .. MaxAmount :
           execute_invest(sender, id, amount)
    \/ \E sender \in Addrs, id \in ProposalIds :
           execute_refund_investors(sender, id)
    \/ \E sender \in Addrs, id \in ProposalIds :
           execute_mint_tokens(sender, id)
    \/ \E r \in ProposalIds : handle_token_instantiate_reply(r)
    \/ \E sender \in Addrs, id \in ProposalIds :
           execute_distribute_tokens(sender, id)
    \/ \E sender \in Addrs : execute_process_expired_proposals(sender)
    \/ \E sender \in Addrs : process_expired_lockups(sender)

Spec == Init /\ [][Next]_vars

\* ------------------------------------- specification of the token issuance
\* Several campaigns are funded at the time of creation and their tokens are
\* requested, confirmed and distributed, in any order; time passes while a
\* confirmation is awaited.
NextIssuance ==
    \/ /\ token_requests # {}
       /\ Tick
    \/ /\ proposal_count < MaxIssuanceProposals
       /\ \E sender \in Creators, terms \in TermsInputs :
              execute_create_proposal(
                  sender, terms, now + MIN_FUNDING_PERIOD_DAYS * SECONDS_PER_DAY)
    \/ \E sender \in Investors, id \in 1 .. MaxIssuanceProposals :
           execute_invest(sender, id, MaxAmount)
    \/ \E id \in 1 .. MaxIssuanceProposals :
           execute_mint_tokens(Admin, id)
    \/ \E r \in 1 .. MaxIssuanceProposals : handle_token_instantiate_reply(r)
    \/ \E id \in 1 .. MaxIssuanceProposals :
           execute_distribute_tokens(Admin, id)

SpecIssuance == Init /\ [][NextIssuance]_vars

\* The token issuance with its scheduling: the creator or admin keeps calling
\* mint_tokens and distribute_tokens for every campaign, and the token module
\* answers every request.
FairIssuance ==
    /\ \A id \in 1 .. MaxIssuanceProposals :
           /\ WF_vars(execute_mint_tokens(Admin, id))
           /\ WF_vars(execute_distribute_tokens(Admin, id))
    /\ \A r \in 1 .. MaxIssuanceProposals :
           WF_vars(handle_token_instantiate_reply(r))

SpecIssuanceLive == SpecIssuance /\ FairIssuance

\* ------------------------------------- specification of the admin calls
\* platform_fee_bps offered to update_config: none, the fees of instantiate,
\* and one above 100%.
UpdateFeeInputs == { None } \cup { Some(fee) : fee \in FeeInputs \cup {10001} }

\* enabled offered to update_rate_limit_config.
UpdateEnabledInputs == { None, Some(TRUE), Some(FALSE) }

execute_update_config_result(sender, platform_fee_bps) ==
    IF config.admin # sender THEN "Unauthorized"
    ELSE IF IsSome(platform_fee_bps) /\ Unwrap(platform_fee_bps) > 10000
         THEN "InvalidPlatformFee"
    ELSE "Ok"

\* admin, the funding periods and cw20_code_id are not given (None).
execute_update_config(sender, platform_fee_bps) ==
    /\ execute_update_config_result(sender, platform_fee_bps) = "Ok"
    /\ config' = IF IsSome(platform_fee_bps)
                 THEN [config EXCEPT !.platform_fee_bps = Unwrap(platform_fee_bps)]
                 ELSE config
    /\ last' = Call("update_config", 0)
    /\ response' = << >>
    /\ UNCHANGED << now, proposal_count, proposals, investments,
                    proposal_investments, creators, creator_proposal_count,
                    pending_token_reply, token_contracts, rate_limit_config,
                    operation_limits, user_operations, token_requests, history >>

execute_update_rate_limit_config_result(sender) ==
    IF config.admin # sender THEN "Unauthorized" ELSE "Ok"

\* RateLimiter::update_config; window_seconds and max_operations are not
\* given (None).
update_config(enabled) ==
    IF IsSome(enabled)
    THEN [rate_limit_config EXCEPT !.enabled = Unwrap(enabled)]
    ELSE rate_limit_config

execute_update_rate_limit_config(sender, enabled) ==
    /\ execute_update_rate_limit_config_result(sender) = "Ok"
    /\ rate_limit_config' = update_config(enabled)
    /\ last' = Call("update_rate_limit_config", 0)
    /\ response' = << >>
    /\ UNCHANGED << now, config, proposal_count, proposals, investments,
                    proposal_investments, creators, creator_proposal_count,
                    pending_token_reply, token_contracts, operation_limits,
                    user_operations, token_requests, history >>

\* The admin configures the contract before the first campaign is created.
NextAccess ==
    \/ Next
    \/ /\ proposal_count = 0
       /\ \E sender \in Addrs, platform_fee_bps \in UpdateFeeInputs :
              execute_update_config(sender, platform_fee_bps)
    \/ /\ proposal_count = 0
       /\ \E sender \in Addrs, enabled \in UpdateEnabledInputs :
              execute_update_rate_limit_config(sender, enabled)

SpecAccess == Init /\ [][NextAccess]_vars

\* ------------------------------------- specification of the platform fee
\* platform_fee_bps given to instantiate (Option<u16>, saved as it is): the
\* fees of FeeInputs, the whole, and twice the whole.
InstantiateFeeInputs == FeeInputs \cup { 10000, 20000 }

\* The state after an instantiation with any of these fees.
InitFee ==
    /\ now = 0
    /\ config \in [admin : {Admin}, platform_fee_bps : InstantiateFeeInputs,
                   min_funding_period_days : {MIN_FUNDING_PERIOD_DAYS},
                   max_funding_period_days : {MAX_FUNDING_PERIOD_DAYS},
                   lockup_period_seconds : {LOCKUP_PERIOD_SECONDS}]
    /\ proposal_count = 0
    /\ proposals = EmptyMap
    /\ investments = EmptyMap
    /\ proposal_investments = EmptyMap
    /\ creators = EmptyMap
    /\ creator_proposal_count = EmptyMap
    /\ pending_token_reply = None
    /\ token_contracts = EmptyMap
    /\ rate_limit_config = DefaultRateLimitConfig
    /\ operation_limits = InitialOperationLimits
    /\ user_operations = EmptyMap
    /\ token_requests = {}
    /\ last = NoCall
    /\ response = << >>
    /\ history = [contributions |-> EmptyMap, emitted |-> EmptyMap]

\* A campaign is funded, its token requested and confirmed and its funds
\* distributed, while the admin may change the fee.
NextFee ==
    \/ /\ proposal_count < MaxProposals
       /\ \E sender \in Creators, terms \in TermsInputs :
              execute_create_proposal(
                  sender, terms, now + MIN_FUNDING_PERIOD_DAYS * SECONDS_PER_DAY)
    \/ \E sender \in Investors, id \in ProposalIds :
           execute_invest(sender, id, MaxAmount)
    \/ \E id \in ProposalIds : execute_mint_tokens(Admin, id)
    \/ \E r \in ProposalIds : handle_token_instantiate_reply(r)
    \/ \E sender \in Addrs, id \in ProposalIds :
           execute_distribute_tokens(sender, id)
    \/ \E sender \in Addrs, platform_fee_bps \in UpdateFeeInputs :
           execute_update_config(sender, platform_fee_bps)

SpecFee == InitFee /\ [][NextFee]_vars

\* ------------------------------------- specification of the creations
\* The addresses that create campaigns, with the same terms, at any of the
\* instants; the creator's cap and the rate limiter bound their number.
CampaignCreators == Creators

NextCreate ==
    \/ Tick
    \/ \E sender \in CampaignCreators, terms \in MinimumTermsInputs :
           execute_create_proposal(
               sender, terms, now + MIN_FUNDING_PERIOD_DAYS * SECONDS_PER_DAY)

SpecCreate == Init /\ [][NextCreate]_vars

\* ------------------------------------- specification of the minimum
\* One campaign with a minimum above the share price takes investments of
\* every amount up to MaxAmount, before and after its deadline.
NextMinimum ==
    \/ Tick
    \/ /\ proposal_count < MaxProposals
       /\ \E sender \in Creators, terms \in MinimumTermsInputs :
              execute_create_proposal(
                  sender, terms, now + MIN_FUNDING_PERIOD_DAYS * SECONDS_PER_DAY)
    \/ \E sender \in Investors, id \in ProposalIds, amount \in 0 .. MaxAmount :
           execute_invest(sender, id, amount)

SpecMinimum == Init /\ [][NextMinimum]_vars

\* ------------------------------------- specification of the rate limiter
\* The operation whose limit the admin sets and the users then call.
RateOperation == "invest"

execute_update_operation_limit_result(sender) ==
    IF config.admin # sender THEN "Unauthorized" ELSE "Ok"

execute_update_operation_limit(sender, operation, max_per_window, window_seconds) ==
    /\ execute_update_operation_limit_result(sender) = "Ok"
    /\ operation_limits' =
           Save(operation_limits, operation,
                [max_per_window |-> max_per_window,
                 window_seconds |-> window_seconds])
    /\ last' = [Call("update_operation_limit", 0) EXCEPT !.sender = sender]
    /\ response' = << >>
    /\ UNCHANGED << now, config, proposal_count, proposals, investments,
                    proposal_investments, creators, creator_proposal_count,
                    pending_token_reply, token_contracts, rate_limit_config,
                    user_operations, token_requests, history >>

\* A call whose rejection restarts the window of the pair.
rate_limited_operation_restarting_window(user, operation) ==
    /\ IF record_operation(user, operation).ok
       THEN /\ user_operations' = record_operation(user, operation).val
            /\ last' = [Call("record_operation", 0) EXCEPT !.sender = user]
       ELSE /\ user_operations' =
                   [user_operations EXCEPT
                       ![<< user, operation >>].window_start = now,
                       ![<< user, operation >>].last_operation = now]
            /\ last' = [Call("record_operation", 0) EXCEPT
                           !.sender = user,
                           !.result = record_operation(user, operation).err]
    /\ response' = << >>
    /\ UNCHANGED << now, config, proposal_count, proposals, investments,
                    proposal_investments, creators, creator_proposal_count,
                    pending_token_reply, token_contracts, rate_limit_config,
                    operation_limits, token_requests, history >>

\* One call of RateLimiter::record_operation: admitted and counted, or
\* rejected before anything is saved.
rate_limited_operation(user, operation) ==
    /\ IF record_operation(user, operation).ok
       THEN /\ user_operations' = record_operation(user, operation).val
            /\ last' = [Call("record_operation", 0) EXCEPT !.sender = user]
       ELSE /\ user_operations' = user_operations
            /\ last' = [Call("record_operation", 0) EXCEPT
                           !.sender = user,
                           !.result = record_operation(user, operation).err]
    /\ response' = << >>
    /\ UNCHANGED << now, config, proposal_count, proposals, investments,
                    proposal_investments, creators, creator_proposal_count,
                    pending_token_reply, token_contracts, rate_limit_config,
                    operation_limits, token_requests, history >>

\* u32::saturating_sub
saturating_sub(a, b) == IF b > a THEN 0 ELSE a - b

\* A status that reports the count of a window that has elapsed.
get_user_status_of_elapsed_window(user, operation) ==
    LET key == << user, operation >>
        max_operations ==
            IF Has(operation_limits, operation)
            THEN operation_limits[operation].max_per_window
            ELSE rate_limit_config.max_operations
        window_seconds ==
            IF Has(operation_limits, operation)
            THEN operation_limits[operation].window_seconds
            ELSE rate_limit_config.window_seconds
    IN  IF Has(user_operations, key)
        THEN << user_operations[key].operation_count,
                saturating_sub(max_operations,
                               user_operations[key].operation_count),
                user_operations[key].window_start + window_seconds >>
        ELSE << 0, max_operations, now + window_seconds >>

\* RateLimiter::get_user_status: (used, remaining, window_end)
get_user_status(user, operation) ==
    LET key == << user, operation >>
        max_operations ==
            IF Has(operation_limits, operation)
            THEN operation_limits[operation].max_per_window
            ELSE rate_limit_config.max_operations
        window_seconds ==
            IF Has(operation_limits, operation)
            THEN operation_limits[operation].window_seconds
            ELSE rate_limit_config.window_seconds
    IN  IF Has(user_operations, key)
        THEN LET user_ops == user_operations[key]
             IN  IF now < user_ops.window_start + window_seconds
                 THEN << user_ops.operation_count,
                         saturating_sub(max_operations, user_ops.operation_count),
                         user_ops.window_start + window_seconds >>
                 ELSE << 0, max_operations, now + window_seconds >>
        ELSE << 0, max_operations, now + window_seconds >>

\* The operations whose status is queried: one with a limit of its own and
\* one under the limit of the configuration.
StatusOperations == { RateOperation, "cancel_proposal" }

\* The status query: the answer is the response, nothing is written.
query_user_status(user, operation) ==
    /\ last' = [Call("get_user_status", 0) EXCEPT
                   !.sender = user, !.new_status = operation]
    /\ response' = << get_user_status(user, operation) >>
    /\ UNCHANGED << now, store, token_requests, history >>

\* One second passes.
RateTick ==
    /\ now < MaxRateTime
    /\ now' = now + 1
    /\ last' = NoCall
    /\ response' = << >>
    /\ UNCHANGED << store, token_requests, history >>

NextRateLimiter ==
    \/ RateTick
    \/ \E sender \in {Admin}, max_per_window \in 1 .. MaxRateLimit :
           execute_update_operation_limit(
               sender, RateOperation, max_per_window, RateWindow)
    \/ /\ operation_limits[RateOperation].max_per_window <= MaxRateLimit
       /\ \E user \in Investors : rate_limited_operation(user, RateOperation)
    \/ \E user \in Investors, operation \in StatusOperations :
           query_user_status(user, operation)

SpecRateLimiter == Init /\ [][NextRateLimiter]_vars

\* The rate limiter when the admin may also set a limit of no call at all.
NextRateLimiterZero ==
    \/ NextRateLimiter
    \/ \E sender \in {Admin} :
           execute_update_operation_limit(sender, RateOperation, 0, RateWindow)

SpecRateLimiterZero == Init /\ [][NextRateLimiterZero]_vars

\* ------------------------------------------- specification of MathGuard
\* Operands of the checked arithmetic: the smallest amounts, the two sides
\* of the square root of the width and of its half, and the largest.
MathInputs ==
    0 .. 3 \cup { 32767, 32768, U128_MAX \div 2, U128_MAX \div 2 + 1,
                  U128_MAX - 1, U128_MAX }

\* The operands are in response; a call appends what it returned.
InitMath ==
    /\ now = 0
    /\ config \in [admin : {Admin}, platform_fee_bps : {DEFAULT_PLATFORM_FEE_BPS},
                   min_funding_period_days : {MIN_FUNDING_PERIOD_DAYS},
                   max_funding_period_days : {MAX_FUNDING_PERIOD_DAYS},
                   lockup_period_seconds : {LOCKUP_PERIOD_SECONDS}]
    /\ proposal_count = 0
    /\ proposals = EmptyMap
    /\ investments = EmptyMap
    /\ proposal_investments = EmptyMap
    /\ creators = EmptyMap
    /\ creator_proposal_count = EmptyMap
    /\ pending_token_reply = None
    /\ token_contracts = EmptyMap
    /\ rate_limit_config = DefaultRateLimitConfig
    /\ operation_limits = InitialOperationLimits
    /\ user_operations = EmptyMap
    /\ token_requests = {}
    /\ last = NoCall
    /\ \E a \in MathInputs, b \in MathInputs : response = << a, b >>
    /\ history = [contributions |-> EmptyMap, emitted |-> EmptyMap]

\* The sum and the product of the operands are within what the model
\* checker computes (32-bit signed).
SumComputable(a, b) == a <= 2147483647 - b
ProductComputable(a, b) == IF a = 0 THEN TRUE ELSE b <= 2147483647 \div a

MathGuardCall(op, returned) ==
    /\ last' = Call(op, 0)
    /\ response' = << response[1], response[2], returned >>
    /\ UNCHANGED << now, store, token_requests, history >>

apply_safe_add ==
    /\ SumComputable(response[1], response[2])
    /\ MathGuardCall("safe_add", safe_add(response[1], response[2]))

apply_safe_sub == MathGuardCall("safe_sub", safe_sub(response[1], response[2]))

apply_safe_mul ==
    /\ ProductComputable(response[1], response[2])
    /\ MathGuardCall("safe_mul", safe_mul(response[1], response[2]))

apply_safe_div == MathGuardCall("safe_div", safe_div(response[1], response[2]))

NextMath == apply_safe_add \/ apply_safe_sub \/ apply_safe_mul \/ apply_safe_div

SpecMath == InitMath /\ [][NextMath]_vars

\* ------------------------------- specification of the share computation
\* Amounts and prices: the smallest, those around the width of a share
\* count, and those around the ceiling of validate_calculation_inputs.
ShareAmounts ==
    0 .. (U64_MAX + 2)
    \cup { MAX_REASONABLE_VALUE - 1, MAX_REASONABLE_VALUE, MAX_REASONABLE_VALUE + 1 }

\* Precision factors: the smallest, the one of calculate_shares, the
\* divisor of the ceiling and twice that.
PrecisionFactors ==
    { 1, 2, PRECISION_FACTOR, REASONABLE_DIVISOR, 2 * REASONABLE_DIVISOR }

\* The amount, the price and the precision factor are in response; a call
\* appends what it returned.
InitShares ==
    /\ now = 0
    /\ config \in [admin : {Admin}, platform_fee_bps : {DEFAULT_PLATFORM_FEE_BPS},
                   min_funding_period_days : {MIN_FUNDING_PERIOD_DAYS},
                   max_funding_period_days : {MAX_FUNDING_PERIOD_DAYS},
                   lockup_period_seconds : {LOCKUP_PERIOD_SECONDS}]
    /\ proposal_count = 0
    /\ proposals = EmptyMap
    /\ investments = EmptyMap
    /\ proposal_investments = EmptyMap
    /\ creators = EmptyMap
    /\ creator_proposal_count = EmptyMap
    /\ pending_token_reply = None
    /\ token_contracts = EmptyMap
    /\ rate_limit_config = DefaultRateLimitConfig
    /\ operation_limits = InitialOperationLimits
    /\ user_operations = EmptyMap
    /\ token_requests = {}
    /\ last = NoCall
    /\ \E amount \in ShareAmounts, price \in ShareAmounts,
          precision_factor \in PrecisionFactors :
           response = << amount, price, precision_factor >>
    /\ history = [contributions |-> EmptyMap, emitted |-> EmptyMap]

\* validate_calculation_inputs, then calculate_shares_precise, with the
\* precision factor of the call.
validated_shares(amount, price, precision_factor) ==
    LET valid == validate_calculation_inputs(amount, price)
    IN  IF ~valid.ok THEN valid
        ELSE calculate_shares_precise(amount, price, precision_factor)

apply_calculate_shares ==
    /\ Len(response) = 3
    /\ last' = Call("calculate_shares", 0)
    /\ response' = Append(response,
                          validated_shares(response[1], response[2], response[3]))
    /\ UNCHANGED << now, store, token_requests, history >>

\* The naive division, for a proposal that raised the amount at the price.
apply_calculate_current_shares_sold ==
    /\ Len(response) = 3
    /\ last' = Call("calculate_current_shares_sold", 0)
    /\ response' = Append(response,
                          Ok(calculate_current_shares_sold(
                                 [raised_amount |-> response[1],
                                  token_price |-> response[2]])))
    /\ UNCHANGED << now, store, token_requests, history >>

NextShares == apply_calculate_shares \/ apply_calculate_current_shares_sold

SpecShares == InitShares /\ [][NextShares]_vars

\* ------------------------------- specification of the transition validator
ProposalStatuses == {"Active", "Funded", "Completed", "Failed", "Cancelled"}

\* The arguments of validate_proposal_state_transition: a proposal of any
\* status and flags, at any of the instants.
InitValidator ==
    /\ now \in TimePoints
    /\ config \in [admin : {Admin}, platform_fee_bps : {DEFAULT_PLATFORM_FEE_BPS},
                   min_funding_period_days : {MIN_FUNDING_PERIOD_DAYS},
                   max_funding_period_days : {MAX_FUNDING_PERIOD_DAYS},
                   lockup_period_seconds : {LOCKUP_PERIOD_SECONDS}]
    /\ proposal_count = 1
    /\ \E status \in ProposalStatuses, is_funded \in BOOLEAN,
          tokens_minted \in BOOLEAN :
           proposals =
               (1 :> [creator |-> "creator",
                      target_amount |-> 4,
                      token_price |-> 1,
                      total_shares |-> U64_MAX,
                      minimum_investment |-> 1,
                      funding_deadline |-> MIN_FUNDING_PERIOD_DAYS * SECONDS_PER_DAY,
                      raised_amount |-> 0,
                      investor_count |-> 0,
                      is_funded |-> is_funded,
                      tokens_minted |-> tokens_minted,
                      lockup_end |-> None,
                      status |-> status])
    /\ investments = EmptyMap
    /\ proposal_investments = EmptyMap
    /\ creators = EmptyMap
    /\ creator_proposal_count = EmptyMap
    /\ pending_token_reply = None
    /\ token_contracts = EmptyMap
    /\ rate_limit_config = DefaultRateLimitConfig
    /\ operation_limits = InitialOperationLimits
    /\ user_operations = EmptyMap
    /\ token_requests = {}
    /\ last = NoCall
    /\ response = << >>
    /\ history = [contributions |-> EmptyMap, emitted |-> EmptyMap]

\* One application of the validator to the proposal and a target status.
apply_state_transition_validator(proposal_id, new_status) ==
    /\ last' = [Call("validate_proposal_state_transition", proposal_id) EXCEPT
                   !.new_status = new_status,
                   !.result = validate_proposal_state_transition(
                                  proposals[proposal_id].status, new_status,
                                  proposals[proposal_id], now).err]
    /\ response' = << >>
    /\ UNCHANGED << now, store, token_requests, history >>

NextValidator ==
    \E new_status \in ProposalStatuses :
        apply_state_transition_validator(1, new_status)

SpecValidator == InitValidator /\ [][NextValidator]_vars

\* ------------------------------------------------------------- properties
\* Sum of f over a finite set.
RECURSIVE SumOver(_, _)
SumOver(S, f) ==
    IF S = {} THEN 0
    ELSE LET x == CHOOSE y \in S : TRUE
         IN  f[x] + SumOver(S \ {x}, f)

\* Sum of the elements of a sequence of numbers.
RECURSIVE SumSeq(_)
SumSeq(q) == IF q = << >> THEN 0 ELSE Head(q) + SumSeq(Tail(q))

\* The investors that hold a record of the proposal.
RecordHolders(proposal_id) ==
    { a \in Addrs : Has(investments, << proposal_id, a >>) }

\* Sum of the shares of all the records of the proposal.
SharesOnRecord(proposal_id) ==
    SumOver(RecordHolders(proposal_id),
            [ a \in RecordHolders(proposal_id) |->
                investments[<< proposal_id, a >>].shares ])

\* Everything the investors of the proposal paid in, over all their calls.
TotalInvested(proposal_id) ==
    SumOver(RecordHolders(proposal_id),
            [ a \in RecordHolders(proposal_id) |->
                SumSeq(MayLoad(history.contributions, << proposal_id, a >>, << >>)) ])

\* How many messages of the given kinds were ever emitted for (proposal, to).
EmittedFor(kinds, proposal_id, to) ==
    LET ms == { m \in DOMAIN history.emitted :
                  m.kind \in kinds /\ m.proposal_id = proposal_id /\ m.to = to }
    IN  SumOver(ms, [ m \in ms |-> history.emitted[m] ])

\* How many messages of the kind were ever emitted for the proposal.
EmittedKind(kind, proposal_id) ==
    LET ms == { m \in DOMAIN history.emitted :
                  m.kind = kind /\ m.proposal_id = proposal_id }
    IN  SumOver(ms, [ m \in ms |-> history.emitted[m] ])

\* C1: for every campaign the sum of the shares of all its investment
\* records is at most the campaign's total_shares.
C1_SharesWithinTotal ==
    \A id \in DOMAIN proposals :
        SharesOnRecord(id) <= proposals[id].total_shares

\* C2: when the expiry sweep has just failed a campaign that holds
\* investments, the campaign is Failed and refund_investors by the admin or
\* the creator is accepted and refunds, one transfer per investor, exactly
\* what was invested.
C2_SweepThenRefund ==
    \A id \in DOMAIN proposals :
        (/\ last.op = "process_expired_proposals"
         /\ id \in last.processed
         /\ TotalInvested(id) > 0)
        => /\ proposals[id].status = "Failed"
           /\ \A sender \in {config.admin, proposals[id].creator} :
                  execute_refund_investors_result(sender, id) = "Ok"
           /\ LET pending == PendingInvestors(id)
              IN  /\ { pending[i] : i \in 1 .. Len(pending) } = RecordHolders(id)
                  /\ SumSeq([ i \in 1 .. Len(pending) |->
                               refund_msg(id, pending[i]).amount ])
                         = TotalInvested(id)

\* C4: nothing is paid twice: for each investment record at most one
\* settlement instruction (a refund transfer or a mint) is ever emitted, and
\* for each campaign the creator payout and the platform fee transfer are
\* emitted at most once.
C4_NothingPaidTwice ==
    \A id \in DOMAIN proposals :
        /\ \A a \in Addrs : EmittedFor({"refund", "mint"}, id, a) <= 1
        /\ EmittedKind("creator_payout", id) <= 1
        /\ EmittedKind("platform_fee", id) <= 1

\* C4 witness: a campaign was distributed with a mint, a creator payout and
\* a fee transfer, and a later call on it was made.
C4_Witness ==
    \E id \in DOMAIN proposals :
        /\ \E a \in Addrs : EmittedFor({"mint"}, id, a) = 1
        /\ EmittedKind("creator_payout", id) = 1
        /\ EmittedKind("platform_fee", id) = 1
        /\ last.op \notin {"distribute_tokens", "none"}

\* C6: once a campaign is Failed, Cancelled or Completed, no step changes
\* its status.
C6_TerminalStatusKept ==
    [][ \A id \in DOMAIN proposals :
            proposals[id].status \in {"Failed", "Cancelled", "Completed"}
            => proposals'[id].status = proposals[id].status ]_vars

\* C6 witness: refund_investors was accepted on a Cancelled campaign, which
\* is still Cancelled.
C6_Witness ==
    \E id \in DOMAIN proposals :
        /\ proposals[id].status = "Cancelled"
        /\ last.op = "refund_investors"
        /\ last.proposal_id = id

\* C7: every Completed campaign has tokens_minted = TRUE.
C7_CompletedHasTokens ==
    \A id \in DOMAIN proposals :
        proposals[id].status = "Completed" => proposals[id].tokens_minted

Places(msgs, kind, to) ==
    { i \in 1 .. Len(msgs) : msgs[i].kind = kind /\ msgs[i].to = to }

\* C9: a successful distribute_tokens emits exactly one mint for each
\* investor whose investment was Pending before the call, for the shares of
\* that investment and on the campaign's token; no other address gets a mint.
C9_OneMintPerPending ==
    [][ last'.op = "distribute_tokens" =>
          LET id == last'.proposal_id
          IN  \A a \in Addrs :
                  IF Has(investments, << id, a >>)
                     /\ investments[<< id, a >>].status = "Pending"
                  THEN /\ Cardinality(Places(response', "mint", a)) = 1
                       /\ \A i \in Places(response', "mint", a) :
                              /\ response'[i].amount = investments[<< id, a >>].shares
                              /\ response'[i].proposal_id = id
                              /\ response'[i].contract = token_contracts[id]
                  ELSE Places(response', "mint", a) = {} ]_vars

\* C9 witness: a distribution that minted for two investors.
C9_Witness ==
    /\ last.op = "distribute_tokens"
    /\ \A a \in Investors : Places(response, "mint", a) # {}

\* C10: on a successful distribute_tokens the fee is
\* floor(raised_amount * fee_bps / 10000), the creator gets raised_amount
\* minus the fee, the two transfers sum to raised_amount, and a transfer is
\* emitted only when its amount is not zero.
C10_PayoutSplit ==
    [][ last'.op = "distribute_tokens" =>
          LET id == last'.proposal_id
              raised == proposals[id].raised_amount
              fee == (raised * config.platform_fee_bps) \div 10000
              fees == Places(response', "platform_fee", config.admin)
              payouts == Places(response', "creator_payout", proposals[id].creator)
              transfers == { i \in 1 .. Len(response') :
                               response'[i].kind \in {"platform_fee", "creator_payout"} }
          IN  /\ transfers = fees \cup payouts
              /\ Cardinality(fees) = (IF fee # 0 THEN 1 ELSE 0)
              /\ Cardinality(payouts) = (IF raised - fee # 0 THEN 1 ELSE 0)
              /\ \A i \in fees : response'[i].amount = fee
              /\ \A i \in payouts : response'[i].amount = raised - fee
              /\ SumOver(transfers, [ i \in transfers |-> response'[i].amount ])
                     = raised ]_vars

\* C10 witness: a distribution whose fee was rounded down and paid.
C10_Witness ==
    /\ last.op = "distribute_tokens"
    /\ \E i \in 1 .. Len(response) :
           /\ response[i].kind = "platform_fee"
           /\ response[i].amount * 10000
                  < proposals[last.proposal_id].raised_amount * config.platform_fee_bps

\* C3: every token request that has not been confirmed has its own pending
\* correlation, and every confirmation is accepted and records the token
\* against the campaign whose request it answers.
C3_OwnCorrelation ==
    /\ \A r \in token_requests :
           IsSome(pending_token_reply) /\ Unwrap(pending_token_reply) = r
    /\ last.op = "reply"
       => /\ last.result = "Ok"
          /\ Has(token_contracts, last.proposal_id)
          /\ token_contracts[last.proposal_id] = TokenAddr(last.proposal_id)

C11_FundedExactlyAtTarget ==
    /\ \A id \in DOMAIN proposals :
           /\ proposals[id].is_funded
                  <=> proposals[id].status \in {"Funded", "Completed"}
           /\ proposals[id].status = "Active"
                  => proposals[id].raised_amount < proposals[id].target_amount
    /\ last.op = "invest"
       => LET proposal == proposals[last.proposal_id]
          IN  IF proposal.raised_amount >= proposal.target_amount
              THEN /\ proposal.is_funded
                   /\ proposal.status = "Funded"
                   /\ proposal.lockup_end = << now + LOCKUP_PERIOD_SECONDS >>
              ELSE /\ ~proposal.is_funded
                   /\ proposal.status = "Active"

\* C11 witness: an invest call has just funded the campaign with exactly the
\* target.
C11_Witness ==
    /\ last.op = "invest"
    /\ proposals[last.proposal_id].status = "Funded"
    /\ proposals[last.proposal_id].raised_amount
           = proposals[last.proposal_id].target_amount

\* The checks of invest, as the claims list them: the campaign is Active,
\* not past its deadline and not funded; the amount is not zero and not
\* below the minimum; it buys at least one share; the shares sold (counted
\* in the width of a share count) stay within total_shares; a new investor
\* is within the investor cap; no sum leaves its width.
InvestChecksPass(investor, id, amount) ==
    LET proposal == proposals[id]
        shares == amount \div proposal.token_price
        sold == proposal.raised_amount \div proposal.token_price
        capped(n) == IF n > U64_MAX THEN U64_MAX ELSE n
    IN  /\ proposal.status = "Active"
        /\ now <= proposal.funding_deadline
        /\ ~proposal.is_funded
        /\ amount > 0
        /\ amount >= proposal.minimum_investment
        /\ shares > 0
        /\ shares <= U64_MAX
        /\ capped(capped(sold) + shares) <= proposal.total_shares
        /\ \/ << id, investor >> \in DOMAIN investments
           \/ proposal.investor_count < 500
        /\ proposal.raised_amount + amount <= U128_MAX

\* The investor's record of the campaign, or an empty one.
RecordOf(m, id, investor) ==
    IF << id, investor >> \in DOMAIN m
    THEN [amount |-> m[<< id, investor >>].amount,
          shares |-> m[<< id, investor >>].shares]
    ELSE [amount |-> 0, shares |-> 0]

\* C12: an invest call that fails one of its checks leaves no trace: every
\* step that changes an investor's invest counter, the amount or shares of
\* one of their records, or the raised_amount of a campaign upwards, is an
\* invest call by that investor that passed every check, and it records
\* one contribution.
C12_FailedInvestLeavesNoTrace ==
    [][ /\ \A a \in Addrs :
              (\/ MayLoad(user_operations', << a, "invest" >>, << >>)
                      # MayLoad(user_operations, << a, "invest" >>, << >>)
               \/ \E id \in DOMAIN proposals' :
                      RecordOf(investments', id, a) # RecordOf(investments, id, a))
              => /\ last'.op = "invest"
                 /\ last'.proposal_id \in DOMAIN proposals
                 /\ LET key == << last'.proposal_id, a >>
                        before == MayLoad(history.contributions, key, << >>)
                        after == MayLoad(history'.contributions, key, << >>)
                    IN  /\ Len(after) = Len(before) + 1
                        /\ InvestChecksPass(a, last'.proposal_id, after[Len(after)])
        /\ \A id \in DOMAIN proposals :
              proposals'[id].raised_amount > proposals[id].raised_amount
              => last'.op = "invest" /\ last'.proposal_id = id
        /\ last'.op # "invest"
              => /\ proposal_investments' = proposal_investments
                 /\ \A c \in DOMAIN creators :
                        creators'[c].total_raised = creators[c].total_raised
      ]_vars

\* C12 witness: a campaign with an investment on record on which an invest
\* call fails the shares cap, and another on which it fails the minimum.
C12_Witness ==
    \E id \in DOMAIN proposals, a \in Investors :
        /\ << id, a >> \in DOMAIN investments
        /\ \E amount \in 1 .. MaxAmount :
               execute_invest_result(a, id, amount) = "InvestmentExceedsAvailable"
        /\ \E amount \in 1 .. MaxAmount :
               execute_invest_result(a, id, amount) = "InvestmentBelowMinimum"

\* C13: a call of a throttled operation made while now < window_start +
\* window_seconds is admitted, and counted, when fewer than the limit were
\* counted in the window, and is rejected with RateLimitExceeded, nothing
\* changed, when the limit was reached; the first call of an actor, and a
\* call made with now >= window_start + window_seconds, are admitted and
\* start a window with window_start = now and a count of 1.
C13_WindowLimit ==
    [][ last'.op = "record_operation" =>
          LET key == << last'.sender, RateOperation >>
              limit == operation_limits[RateOperation]
              admitted == last'.result = "Ok"
          IN  IF key \in DOMAIN user_operations
                 /\ now < user_operations[key].window_start + limit.window_seconds
              THEN IF user_operations[key].operation_count < limit.max_per_window
                   THEN /\ admitted
                        /\ user_operations'[key].operation_count
                               = user_operations[key].operation_count + 1
                        /\ user_operations'[key].window_start
                               = user_operations[key].window_start
                   ELSE /\ last'.result = "RateLimitExceeded"
                        /\ user_operations' = user_operations
              ELSE /\ admitted
                   /\ user_operations'[key].window_start = now
                   /\ user_operations'[key].operation_count = 1 ]_vars

\* C13 witness: an actor was rejected in a window, and the call made after
\* the window was admitted and counted as the first of a new window.
C13_Witness ==
    /\ last.op = "record_operation"
    /\ last.result = "Ok"
    /\ now >= RateWindow
    /\ user_operations[<< last.sender, RateOperation >>].window_start = now
    /\ user_operations[<< last.sender, RateOperation >>].operation_count = 1
    /\ \E other \in Investors :
           /\ other # last.sender
           /\ << other, RateOperation >> \in DOMAIN user_operations
           /\ user_operations[<< other, RateOperation >>].operation_count
                  = MaxRateLimit

\* C14: process_expired_proposals changes only the status, to Failed, of
\* the campaigns it expires: the status of every investment record is as
\* before, raised_amount is as before, and no transfer is emitted.
C14_SweepChangesOnlyCampaignStatus ==
    [][ last'.op = "process_expired_proposals" =>
          /\ \A key \in DOMAIN investments :
                 investments'[key].status = investments[key].status
          /\ \A id \in DOMAIN proposals :
                 /\ proposals'[id].raised_amount = proposals[id].raised_amount
                 /\ proposals'[id] # proposals[id]
                        => proposals'[id]
                               = [proposals[id] EXCEPT !.status = "Failed"]
          /\ response' = << >> ]_vars

\* C15: mint_tokens is accepted at most once for a campaign: a request is
\* accepted only while tokens_minted is false and sets it, tokens_minted
\* is never reset, and while it is set every request for the campaign fails
\* (TokensAlreadyMinted for a creator or admin the rate limiter admits); a
\* correlation is stored, and a creation request sent, only by an accepted
\* request.
C15_MintAtMostOnce ==
    [][ /\ last'.op = "mint_tokens"
           => /\ ~proposals[last'.proposal_id].tokens_minted
              /\ proposals'[last'.proposal_id].tokens_minted
              /\ token_requests' = token_requests \cup {last'.proposal_id}
              /\ pending_token_reply' = << last'.proposal_id >>
        /\ last'.op # "mint_tokens"
           => /\ token_requests' \subseteq token_requests
              /\ pending_token_reply' \in {pending_token_reply, << >>}
        /\ \A id \in DOMAIN proposals :
               proposals[id].tokens_minted
               => /\ proposals'[id].tokens_minted
                  /\ \A sender \in Addrs :
                         /\ execute_mint_tokens_result(sender, id) # "Ok"
                         /\ ( /\ sender \in {proposals[id].creator, config.admin}
                              /\ record_operation(sender, "mint_tokens").ok )
                            => execute_mint_tokens_result(sender, id)
                                   = "TokensAlreadyMinted" ]_vars

\* C15 witness: the token of a campaign was requested and confirmed, and a
\* further request by the admin fails with TokensAlreadyMinted.
C15_Witness ==
    \E id \in DOMAIN proposals :
        /\ proposals[id].tokens_minted
        /\ Has(token_contracts, id)
        /\ last.op = "reply"
        /\ execute_mint_tokens_result(Admin, id) = "TokensAlreadyMinted"
        /\ execute_mint_tokens_result(proposals[id].creator, id)
               = "TokensAlreadyMinted"

\* C16: distribute_tokens is accepted only for a campaign whose token
\* address is recorded, and the mints go to that address; while no address
\* is recorded the call fails for every sender (NotFound for the creator and
\* the admin of a Funded campaign whose token was requested), and no step
\* completes an investment or emits a mint.
C16_NoDistributionWithoutToken ==
    [][ /\ last'.op = "distribute_tokens"
           => /\ last'.proposal_id \in DOMAIN token_contracts
              /\ \A i \in 1 .. Len(response') :
                     response'[i].kind = "mint"
                     => response'[i].contract
                            = token_contracts[last'.proposal_id]
        /\ \A id \in DOMAIN proposals :
               id \notin DOMAIN token_contracts
               => /\ \A sender \in Addrs :
                         execute_distribute_tokens_result(sender, id) # "Ok"
                  /\ ( /\ proposals[id].tokens_minted
                       /\ proposals[id].status = "Funded" )
                     => \A sender \in {proposals[id].creator, config.admin} :
                            execute_distribute_tokens_result(sender, id)
                                = "NotFound"
                  /\ \A a \in Addrs :
                         ( /\ << id, a >> \in DOMAIN investments'
                           /\ investments'[<< id, a >>].status = "Completed" )
                         => /\ << id, a >> \in DOMAIN investments
                            /\ investments[<< id, a >>].status = "Completed"
                  /\ \A i \in 1 .. Len(response') :
                         response'[i].proposal_id = id
                         => response'[i].kind # "mint" ]_vars

\* C16 witness: the token of a Funded campaign with Pending investments was
\* requested, the confirmation is not yet delivered, and distribute_tokens
\* by the admin fails with NotFound.
C16_Witness ==
    \E id \in DOMAIN proposals :
        /\ proposals[id].tokens_minted
        /\ proposals[id].status = "Funded"
        /\ id \notin DOMAIN token_contracts
        /\ id \in token_requests
        /\ PendingInvestors(id) # << >>
        /\ execute_distribute_tokens_result(Admin, id) = "NotFound"

\* C17: a token confirmation that finds no stored proposal id fails, and
\* records no token address, changes no campaign and leaves the slot empty;
\* an accepted confirmation records the address under the stored proposal
\* id, sets that campaign's lockup_end to now + LOCKUP_PERIOD_SECONDS,
\* changes nothing else of any campaign and empties the slot.
C17_ConfirmationNeedsCorrelation ==
    [][ last'.op = "reply" =>
          IF pending_token_reply = << >>
          THEN /\ last'.result # "Ok"
               /\ token_contracts' = token_contracts
               /\ proposals' = proposals
               /\ pending_token_reply' = << >>
          ELSE LET id == pending_token_reply[1]
               IN  /\ last'.result = "Ok"
                   /\ DOMAIN token_contracts' = DOMAIN token_contracts \cup {id}
                   /\ token_contracts'[id] = << "token", last'.proposal_id >>
                   /\ \A other \in DOMAIN token_contracts \ {id} :
                          token_contracts'[other] = token_contracts[other]
                   /\ proposals' =
                          [proposals EXCEPT ![id].lockup_end =
                              << now + LOCKUP_PERIOD_SECONDS >>]
                   /\ pending_token_reply' = << >> ]_vars

\* C17 witness: a second confirmation arrived after the first one emptied
\* the slot and was rejected, an address being on record from the first.
C17_Witness ==
    /\ last.op = "reply"
    /\ last.result = "NotFound"
    /\ pending_token_reply = << >>
    /\ token_contracts # << >>
    /\ \E id \in DOMAIN token_contracts :
           /\ proposals[id].lockup_end = << now + LOCKUP_PERIOD_SECONDS >>
           /\ now > 0

\* The investors of the campaign whose investment is Pending.
PendingHolders(id) ==
    { a \in Addrs : /\ << id, a >> \in DOMAIN investments
                    /\ investments[<< id, a >>].status = "Pending" }

\* C18 as stated, for a campaign with investments: refund_investors by the
\* creator or the admin fails with NoInvestmentsToRefund whenever none of
\* the investments is Pending (all refunded or all distributed).
C18_NoPendingAlwaysNoInvestmentsError ==
    \A id \in DOMAIN proposals :
        ( RecordHolders(id) # {} /\ PendingHolders(id) = {} )
        => \A sender \in {proposals[id].creator, config.admin} :
               execute_refund_investors_result(sender, id)
                   = "NoInvestmentsToRefund"

\* C18 amended: while a campaign has no Pending investment refund_investors
\* fails for every sender; for the creator and the admin the error is
\* NoInvestmentsToRefund when the campaign is Failed, Cancelled or Active
\* past its deadline, and is the error of the status check otherwise
\* (FundingDeadlinePassed for Active up to the deadline, ProposalNotActive
\* for Funded and Completed). An accepted refund starts from a Pending
\* investment, leaves none and emits a transfer; a campaign goes from Active
\* to Failed only in an accepted refund or in the expiry sweep.
C18_NoPendingRefundFails ==
    [][ /\ \A id \in DOMAIN proposals :
               PendingHolders(id) = {}
               => /\ \A sender \in Addrs :
                         execute_refund_investors_result(sender, id) # "Ok"
                  /\ \A sender \in {proposals[id].creator, config.admin} :
                         execute_refund_investors_result(sender, id)
                             = IF proposals[id].status \in {"Failed", "Cancelled"}
                               THEN "NoInvestmentsToRefund"
                               ELSE IF proposals[id].status # "Active"
                               THEN "ProposalNotActive"
                               ELSE IF now <= proposals[id].funding_deadline
                               THEN "FundingDeadlinePassed"
                               ELSE "NoInvestmentsToRefund"
        /\ last'.op = "refund_investors"
           => /\ PendingHolders(last'.proposal_id) # {}
              /\ \A a \in Addrs :
                     << last'.proposal_id, a >> \in DOMAIN investments'
                     => investments'[<< last'.proposal_id, a >>].status
                            # "Pending"
              /\ response' # << >>
        /\ \A id \in DOMAIN proposals :
               ( proposals[id].status = "Active"
                 /\ proposals'[id].status = "Failed" )
               => last'.op \in {"refund_investors", "process_expired_proposals"}
      ]_vars

\* C18 witness: a refund was just accepted and paid, and a second one by the
\* creator or the admin fails with NoInvestmentsToRefund.
C18_Witness ==
    /\ last.op = "refund_investors"
    /\ response # << >>
    /\ PendingHolders(last.proposal_id) = {}
    /\ \A sender \in {proposals[last.proposal_id].creator, config.admin} :
           execute_refund_investors_result(sender, last.proposal_id)
               = "NoInvestmentsToRefund"

\* C19: refund_investors is accepted only for a campaign that is Failed or
\* Cancelled, which keeps its status, or Active with now > funding_deadline,
\* which becomes Failed; for a campaign that is Active with
\* now <= funding_deadline, Funded or Completed it fails for every sender,
\* and a refund transfer is emitted only by an accepted refund_investors.
C19_RefundOnlyWhenRefundable ==
    [][ /\ last'.op = "refund_investors"
           => LET id == last'.proposal_id
              IN  \/ /\ proposals[id].status \in {"Failed", "Cancelled"}
                     /\ proposals'[id].status = proposals[id].status
                  \/ /\ proposals[id].status = "Active"
                     /\ now > proposals[id].funding_deadline
                     /\ proposals'[id].status = "Failed"
        /\ \A id \in DOMAIN proposals :
               ( \/ proposals[id].status \in {"Funded", "Completed"}
                 \/ /\ proposals[id].status = "Active"
                    /\ now <= proposals[id].funding_deadline )
               => \A sender \in Addrs :
                      execute_refund_investors_result(sender, id)
                          \in {"Unauthorized", "ProposalNotActive",
                               "FundingDeadlinePassed"}
        /\ (\E i \in 1 .. Len(response') : response'[i].kind = "refund")
           => last'.op = "refund_investors" ]_vars

\* C19 witness: a refund was accepted on an Active campaign past its
\* deadline, which is now Failed with nothing raised.
C19_Witness ==
    /\ last.op = "refund_investors"
    /\ proposals[last.proposal_id].status = "Failed"
    /\ now > proposals[last.proposal_id].funding_deadline
    /\ proposals[last.proposal_id].raised_amount = 0
    /\ \E i \in 1 .. Len(response) : response[i].kind = "refund"

\* C20: invest with a zero amount or an amount below minimum_investment is
\* rejected (InsufficientFunds and InvestmentBelowMinimum on a campaign that
\* takes investments, from an investor the rate limiter admits), and nothing
\* is recorded without an accepted amount: a step that creates or changes
\* an investment record, raises raised_amount or changes investor_count is
\* an invest call whose amount is above zero and at least the minimum.
C20_SmallAmountsRejected ==
    [][ /\ \A id \in DOMAIN proposals, a \in Addrs, amount \in 0 .. MaxAmount :
               ( amount = 0 \/ amount < proposals[id].minimum_investment )
               => /\ execute_invest_result(a, id, amount) # "Ok"
                  /\ ( /\ proposals[id].status = "Active"
                       /\ now <= proposals[id].funding_deadline
                       /\ record_operation(a, "invest").ok )
                     => execute_invest_result(a, id, amount)
                            = IF amount = 0 THEN "InsufficientFunds"
                              ELSE "InvestmentBelowMinimum"
        /\ \A id \in DOMAIN proposals :
               LET paid(a) == RecordOf(investments', id, a).amount
                                  - RecordOf(investments, id, a).amount
                   changed == { a \in Addrs :
                                  \/ RecordOf(investments', id, a)
                                         # RecordOf(investments, id, a)
                                  \/ (<< id, a >> \in DOMAIN investments')
                                         # (<< id, a >> \in DOMAIN investments) }
               IN  /\ \A a \in changed :
                          \/ /\ last'.op = "invest" /\ last'.proposal_id = id
                             /\ paid(a) > 0
                             /\ paid(a) >= proposals[id].minimum_investment
                             /\ proposals'[id].raised_amount
                                    = proposals[id].raised_amount + paid(a)
                          \/ /\ last'.op # "invest"
                             /\ paid(a) = 0
                   /\ ( \/ proposals'[id].raised_amount > proposals[id].raised_amount
                        \/ proposals'[id].investor_count # proposals[id].investor_count )
                      => /\ last'.op = "invest" /\ last'.proposal_id = id
                         /\ changed # {} ]_vars

\* C20 witness: a campaign that takes investments has an investment on
\* record and rejects, from an investor without a record, a zero amount
\* with InsufficientFunds and an amount that would buy a share with
\* InvestmentBelowMinimum.
C20_Witness ==
    \E id \in DOMAIN proposals, a \in Investors :
        /\ last.op = "invest"
        /\ proposals[id].status = "Active"
        /\ << id, a >> \notin DOMAIN investments
        /\ execute_invest_result(a, id, 0) = "InsufficientFunds"
        /\ \E amount \in 1 .. MaxAmount :
               /\ amount >= proposals[id].token_price
               /\ execute_invest_result(a, id, amount) = "InvestmentBelowMinimum"

\* C21: in every state the shares sold as derived from the ledger total,
\* floor(raised_amount / token_price), are at most total_shares, and the
\* funds raised are at most what the issuable shares can back.
C21_DerivedSharesWithinTotal ==
    \A id \in DOMAIN proposals :
        /\ proposals[id].raised_amount \div proposals[id].token_price
               <= proposals[id].total_shares
        /\ proposals[id].raised_amount
               <= proposals[id].total_shares * proposals[id].token_price

\* C22: for an Active, unfunded campaign invest passes its deadline check
\* exactly when now <= funding_deadline, and the campaign can be failed, by
\* the expiry sweep and by refund_investors alike, exactly when
\* now > funding_deadline: at every instant exactly one of the two holds.
\* An accepted invest is made at or before the deadline, and a campaign
\* goes from Active to Failed after it.
C22_DeadlinePartition ==
    [][ /\ \A id \in DOMAIN proposals :
               ( proposals[id].status = "Active" /\ ~proposals[id].is_funded )
               => LET open ==
                          \A a \in Investors, amount \in 1 .. MaxAmount :
                              execute_invest_result(a, id, amount)
                                  # "FundingDeadlinePassed"
                      swept == id \in proposals_to_process
                      failable ==
                          validate_proposal_state_transition(
                              "Active", "Failed", proposals[id], now).ok
                      refundable ==
                          \A sender \in {proposals[id].creator, config.admin} :
                              execute_refund_investors_result(sender, id)
                                  \in {"Ok", "NoInvestmentsToRefund"}
                  IN  /\ open <=> now <= proposals[id].funding_deadline
                      /\ swept <=> now > proposals[id].funding_deadline
                      /\ failable <=> now > proposals[id].funding_deadline
                      /\ refundable <=> now > proposals[id].funding_deadline
                      /\ open # swept
        /\ last'.op = "invest"
           => now <= proposals[last'.proposal_id].funding_deadline
        /\ \A id \in DOMAIN proposals :
               ( proposals[id].status = "Active"
                 /\ proposals'[id].status = "Failed" )
               => now > proposals[id].funding_deadline ]_vars

\* C22 witness: an investment was accepted at the instant of the deadline,
\* the campaign is still Active, and the sweep does not collect it.
C22_Witness ==
    /\ last.op = "invest"
    /\ now = proposals[last.proposal_id].funding_deadline
    /\ proposals[last.proposal_id].status = "Active"
    /\ last.proposal_id \notin proposals_to_process

\* C23: every campaign lists each investor with a record once, and its
\* investor_count is the number of investors with a record; a repeated
\* contribution adds its amount and its shares, floor(amount / token_price),
\* to the investor's record and leaves investor_count unchanged.
C23_OneRecordPerInvestor ==
    [][ /\ \A id \in DOMAIN proposals :
               LET investors == MayLoad(proposal_investments, id, << >>)
               IN  /\ \A i, j \in 1 .. Len(investors) :
                          investors[i] = investors[j] => i = j
                   /\ { investors[i] : i \in 1 .. Len(investors) }
                          = RecordHolders(id)
                   /\ proposals[id].investor_count
                          = Cardinality(RecordHolders(id))
        /\ \A id \in DOMAIN proposals, a \in Addrs :
               ( /\ << id, a >> \in DOMAIN investments
                 /\ investments'[<< id, a >>].amount
                        # investments[<< id, a >>].amount )
               => LET key == << id, a >>
                      paid == investments'[key].amount - investments[key].amount
                  IN  /\ last'.op = "invest" /\ last'.proposal_id = id
                      /\ paid > 0
                      /\ investments'[key].shares
                             = investments[key].shares
                                   + (paid \div proposals[id].token_price)
                      /\ investments'[key].status = investments[key].status
                      /\ proposals'[id].investor_count
                             = proposals[id].investor_count ]_vars

\* C24: cancel_proposal by the admin on a campaign that is Funded with
\* tokens_minted = false is accepted; by the creator on a Funded campaign,
\* and by anyone once tokens_minted is true, it fails.
C24_AdminCancelsFundedBeforeMint ==
    \A id \in DOMAIN proposals :
        /\ ( proposals[id].status = "Funded" /\ ~proposals[id].tokens_minted )
           => execute_cancel_proposal_result(config.admin, id) = "Ok"
        /\ proposals[id].status = "Funded"
           => execute_cancel_proposal_result(proposals[id].creator, id) # "Ok"
        /\ proposals[id].tokens_minted
           => \A sender \in Addrs :
                  execute_cancel_proposal_result(sender, id) # "Ok"

\* C25: an accepted cancel_proposal starts from an Active campaign and
\* changes only its status, to Cancelled: it emits nothing and leaves
\* raised_amount, investor_count, the investor list and every investment
\* record as they were, so that refund_investors by the creator or the
\* admin is accepted afterwards exactly when the campaign holds a Pending
\* investment.
C25_CancelChangesOnlyStatus ==
    [][ /\ last'.op = "cancel_proposal"
           => LET id == last'.proposal_id
              IN  /\ proposals[id].status = "Active"
                  /\ proposals' = [proposals EXCEPT ![id].status = "Cancelled"]
                  /\ investments' = investments
                  /\ proposal_investments' = proposal_investments
                  /\ creators' = creators
                  /\ response' = << >>
                  /\ history'.emitted = history.emitted
        /\ \A id \in DOMAIN proposals :
               proposals[id].status = "Cancelled"
               => \A sender \in {proposals[id].creator, config.admin} :
                      execute_refund_investors_result(sender, id) = "Ok"
                          <=> PendingHolders(id) # {} ]_vars

\* C25 witness: a campaign with investments was cancelled, and the admin's
\* refund_investors is accepted and returns every amount on record.
C25_Witness ==
    /\ last.op = "cancel_proposal"
    /\ proposals[last.proposal_id].status = "Cancelled"
    /\ proposals[last.proposal_id].raised_amount > 0
    /\ Cardinality(PendingHolders(last.proposal_id)) = 2
    /\ execute_refund_investors_result(Admin, last.proposal_id) = "Ok"
    /\ proposals[last.proposal_id].raised_amount
           = TotalInvested(last.proposal_id)

C27_EveryEntrypointCounted ==
    [][ last'.op \in {"create_proposal", "update_proposal", "cancel_proposal",
                      "invest", "refund_investors", "mint_tokens",
                      "distribute_tokens"}
        => user_operations' # user_operations ]_vars

\* C28: over the width of an amount, safe_add and safe_mul return the exact
\* sum and product when it fits and Overflow otherwise, safe_sub returns
\* a - b when a >= b and Underflow otherwise, safe_div returns floor(a / b)
\* when b is not zero and DivisionByZero otherwise; a returned value is
\* never a wrapped or a saturated one.
C28_CheckedArithmetic ==
    last.op \in {"safe_add", "safe_sub", "safe_mul", "safe_div"}
    => LET a == response[1]
           b == response[2]
           returned == response[3]
           exact == CASE last.op = "safe_add" -> a + b
                      [] last.op = "safe_sub" -> a - b
                      [] last.op = "safe_mul" -> a * b
                      [] last.op = "safe_div" -> IF b = 0 THEN -1 ELSE a \div b
           failure == CASE last.op = "safe_add" -> "Overflow"
                        [] last.op = "safe_sub" -> "Underflow"
                        [] last.op = "safe_mul" -> "Overflow"
                        [] last.op = "safe_div" -> "DivisionByZero"
       IN  IF 0 <= exact /\ exact <= U128_MAX
           THEN /\ returned.ok
                /\ returned.val = exact
                /\ last.op = "safe_div" => /\ returned.val * b <= a
                                           /\ a - returned.val * b < b
           ELSE /\ ~returned.ok
                /\ returned.err = failure

\* C28 witness: a product of two amounts that fit, one more than the
\* largest amount, was refused with Overflow.
C28_Witness ==
    /\ last.op = "safe_mul"
    /\ response[1] * response[2] = U128_MAX + 1
    /\ ~response[3].ok
    /\ response[3].err = "Overflow"

\* C29: the status query writes nothing, and for a pair whose count is not
\* above its limit it answers (count, max - count, window_start +
\* window_seconds) while now < window_start + window_seconds, and
\* (0, max, now + window_seconds) when the pair has no record or its window
\* has elapsed; used and remaining sum to the limit.
C29_StatusQuery ==
    [][ last'.op = "get_user_status" =>
          LET operation == last'.new_status
              key == << last'.sender, operation >>
              limited == operation \in DOMAIN operation_limits
              max == IF limited THEN operation_limits[operation].max_per_window
                     ELSE 100
              window == IF limited THEN operation_limits[operation].window_seconds
                        ELSE 3600
              recorded == key \in DOMAIN user_operations
              count == IF recorded THEN user_operations[key].operation_count
                       ELSE 0
              answer == response'[1]
          IN  /\ user_operations' = user_operations
              /\ operation_limits' = operation_limits
              /\ rate_limit_config' = rate_limit_config
              /\ now' = now
              /\ count <= max
                 => /\ answer[1] + answer[2] = max
                    /\ IF recorded
                          /\ now < user_operations[key].window_start + window
                       THEN answer = << count, max - count,
                                        user_operations[key].window_start + window >>
                       ELSE answer = << 0, max, now + window >> ]_vars

\* C29 witness: the status of an actor who used up the limit was queried
\* inside the window, and the answer leaves nothing remaining.
C29_Witness ==
    /\ last.op = "get_user_status"
    /\ last.new_status = RateOperation
    /\ response[1][1] = MaxRateLimit
    /\ response[1][2] = 0
    /\ response[1][3] > now
    /\ operation_limits[RateOperation].max_per_window = MaxRateLimit

\* The campaigns the address created.
CreatedBy(c) == { id \in DOMAIN proposals : proposals[id].creator = c }

\* C30: the campaigns of a creator are at most MAX_PROPOSALS_PER_CREATOR
\* (10) and as many as the creator's counter and the total_proposals of the
\* creator's aggregate say; the ids in use are 1 .. proposal_count, so that
\* no id was consumed without a campaign; and a creator at the cap is
\* refused (MaxProposalsExceeded when the rate limiter admits the call).
C30_CreatorCap ==
    /\ DOMAIN proposals = 1 .. proposal_count
    /\ \A c \in Addrs :
           /\ Cardinality(CreatedBy(c)) <= 10
           /\ Cardinality(CreatedBy(c)) = MayLoad(creator_proposal_count, c, 0)
           /\ Cardinality(CreatedBy(c))
                  = IF c \in DOMAIN creators THEN creators[c].total_proposals
                    ELSE 0
           /\ Cardinality(CreatedBy(c)) = 10
              => \A terms \in MinimumTermsInputs, overflow_checks \in OverflowChecks :
                     execute_create_proposal_result(
                         overflow_checks, c, terms,
                         now + MIN_FUNDING_PERIOD_DAYS * SECONDS_PER_DAY)
                         = IF record_operation(c, "create_proposal").ok
                           THEN "MaxProposalsExceeded"
                           ELSE "RateLimitExceeded"

\* C30 witness: a creator has ten campaigns, the rate limiter would admit
\* another creation, and it is refused with MaxProposalsExceeded, while
\* an address that created nothing has none.
C30_Witness ==
    \E c \in Addrs, d \in Addrs :
        /\ Cardinality(CreatedBy(c)) = 10
        /\ record_operation(c, "create_proposal").ok
        /\ \A terms \in MinimumTermsInputs, overflow_checks \in OverflowChecks :
               execute_create_proposal_result(
                   overflow_checks, c, terms,
                   now + MIN_FUNDING_PERIOD_DAYS * SECONDS_PER_DAY)
                   = "MaxProposalsExceeded"
        /\ d # c
        /\ Cardinality(CreatedBy(d)) = 0

\* C31: every investment of a Completed campaign has status Completed and
\* its mint instruction was emitted; no Pending investment is left,
\* whichever operation moved the campaign to Completed.
C31_CompletedCampaignAllMinted ==
    \A id \in DOMAIN proposals :
        proposals[id].status = "Completed"
        => \A a \in RecordHolders(id) :
               /\ investments[<< id, a >>].status = "Completed"
               /\ EmittedFor({"mint"}, id, a) >= 1

\* C32: every investment whose status is Refunded has had exactly one
\* refund transfer emitted to its investor, for exactly its accumulated
\* amount; no step marks an investment Refunded without that transfer.
C32_RefundedWasPaidBack ==
    \A k \in DOMAIN investments :
        investments[k].status = "Refunded"
        => /\ EmittedFor({"refund"}, k[1], k[2]) = 1
           /\ MayLoad(history.emitted,
                      Msg("refund", k[1], k[2], investments[k].amount, Bank),
                      0) = 1

\* Sum of the amounts of the Pending records of the proposal.
PendingAmount(proposal_id) ==
    SumOver(PendingHolders(proposal_id),
            [ a \in PendingHolders(proposal_id) |->
                investments[<< proposal_id, a >>].amount ])

\* C33: the raised_amount of an Active or Funded campaign is the sum of the
\* amounts of its Pending investment records, and an accepted invest of
\* amount a adds exactly a to the campaign's raised_amount and to the
\* investor's recorded amount.
C33_RaisedIsSumOfPending ==
    /\ [](\A id \in DOMAIN proposals :
              proposals[id].status \in {"Active", "Funded"}
              => proposals[id].raised_amount = PendingAmount(id))
    /\ [][ last'.op = "invest"
           => \E investor \in Investors :
                  LET id == last'.proposal_id
                      key == << id, investor >>
                      before == MayLoad(history.contributions, key, << >>)
                      after == history'.contributions[key]
                      a == after[Len(after)]
                  IN  /\ Has(history'.contributions, key)
                      /\ Len(after) = Len(before) + 1
                      /\ a > 0
                      /\ proposals'[id].raised_amount
                             = proposals[id].raised_amount + a
                      /\ investments'[key].amount
                             = (IF Has(investments, key)
                                THEN investments[key].amount ELSE 0) + a
                      /\ \A k \in DOMAIN investments :
                             k # key => investments'[k] = investments[k] ]_vars

\* C33 witness: an investor's second contribution was accepted, the record
\* holds the sum of both, and the campaign, with two investors, is Active or
\* Funded.
C33_Witness ==
    \E id \in DOMAIN proposals, investor \in Investors, other \in Investors :
        /\ last.op = "invest"
        /\ last.proposal_id = id
        /\ proposals[id].status \in {"Active", "Funded"}
        /\ other # investor
        /\ Has(investments, << id, other >>)
        /\ Has(history.contributions, << id, investor >>)
        /\ Len(history.contributions[<< id, investor >>]) = 2
        /\ investments[<< id, investor >>].amount
               = SumSeq(history.contributions[<< id, investor >>])

\* The campaign is Completed and every investment of it was minted.
Settled(id) ==
    /\ Has(proposals, id)
    /\ proposals[id].status = "Completed"
    /\ \A a \in RecordHolders(id) :
           /\ investments[<< id, a >>].status = "Completed"
           /\ EmittedFor({"mint"}, id, a) >= 1

\* C34: when every request is answered and mint_tokens and distribute_tokens
\* keep being called, every campaign that becomes Funded is eventually
\* Completed with all its investments minted, also when several campaigns
\* are settled at the same time.
C34_FundedEventuallySettled ==
    \A id \in 1 .. MaxIssuanceProposals :
        (Has(proposals, id) /\ proposals[id].status = "Funded") ~> Settled(id)

\* C35: for every limit, 0 included, a call is admitted only if the calls
\* admitted in its window, itself included, are at most max_operations; with
\* a limit of 0 no call is admitted, neither the first of an actor nor the
\* first after a window has elapsed.
C35_NeverAboveLimit ==
    [][ (last'.op = "record_operation" /\ last'.result = "Ok")
        => LET key == << last'.sender, RateOperation >>
               limit == operation_limits[RateOperation]
           IN  /\ user_operations'[key].operation_count <= limit.max_per_window
               /\ limit.max_per_window # 0 ]_vars

\* The amount and the price pass validate_calculation_inputs.
PreValidated(amount, price) ==
    /\ 0 < amount /\ amount <= MAX_REASONABLE_VALUE
    /\ 0 < price /\ price <= MAX_REASONABLE_VALUE

\* C36 (as stated): for a pre-validated amount and price and every precision
\* factor >= 1 the precision-scaled computation returns floor(amount /
\* price), the value of the naive division, or the zero-shares error when
\* that is 0, and never Overflow.
C36_PreciseIsFloorNeverOverflow ==
    (last.op = "calculate_shares" /\ PreValidated(response[1], response[2]))
    => LET floor == response[1] \div response[2]
           naive == calculate_current_shares_sold(
                        [raised_amount |-> response[1],
                         token_price |-> response[2]])
       IN  IF floor = 0
           THEN response[4] = Err("InvalidSharesCalculation")
           ELSE response[4] = Ok(floor) /\ naive = floor

\* C36 amended: for a pre-validated amount and price and a precision factor
\* from 1 to the divisor of the ceiling (1,000,000; calculate_shares uses
\* 1000), the precision-scaled computation returns floor(amount / price),
\* the value of the naive division, when that is from 1 to u64::MAX, the
\* zero-shares error when it is 0, and Overflow when it is above u64::MAX,
\* where the naive division saturates at u64::MAX; with a larger precision
\* factor it returns the same or fails with Overflow in the scaling.
C36_PreciseIsFloorWithinShareWidth ==
    (last.op = "calculate_shares" /\ PreValidated(response[1], response[2]))
    => LET floor == response[1] \div response[2]
           naive == calculate_current_shares_sold(
                        [raised_amount |-> response[1],
                         token_price |-> response[2]])
           expected == IF floor = 0 THEN Err("InvalidSharesCalculation")
                       ELSE IF floor > U64_MAX THEN Err("Overflow")
                       ELSE Ok(floor)
       IN  /\ naive = (IF floor > U64_MAX THEN U64_MAX ELSE floor)
           /\ IF response[3] <= REASONABLE_DIVISOR
              THEN response[4] = expected
              ELSE response[4] \in { expected, Err("Overflow") }

\* C36 witness: a pre-validated amount that buys more shares than a share
\* count holds was refused with Overflow under the precision factor of
\* calculate_shares.
C36_Witness ==
    /\ last.op = "calculate_shares"
    /\ PreValidated(response[1], response[2])
    /\ response[3] = PRECISION_FACTOR
    /\ response[1] \div response[2] > U64_MAX
    /\ response[4] = Err("Overflow")

\* C37: the configured platform_fee_bps is at most 10000, the platform fee
\* of a campaign is at most its raised_amount, and distribute_tokens does
\* not fail with Underflow when it computes the creator's payout.
C37_FeeWithinWhole ==
    /\ config.platform_fee_bps <= 10000
    /\ \A id \in DOMAIN proposals :
           /\ platform_fee_of(proposals[id].raised_amount).ok
           /\ platform_fee_of(proposals[id].raised_amount).val
                  <= proposals[id].raised_amount
           /\ \A sender \in Addrs :
                  execute_distribute_tokens_result(sender, id) # "Underflow"

\* The untrn of all the bank transfers ever emitted for the proposal:
\* refunds, the creator's payout and the platform fee.
TransferredFor(proposal_id) ==
    LET ms == { m \in DOMAIN history.emitted :
                  /\ m.kind \in {"refund", "creator_payout", "platform_fee"}
                  /\ m.proposal_id = proposal_id }
    IN  SumOver(ms, [ m \in ms |-> m.amount * history.emitted[m] ])

\* C38: for every campaign the transfers emitted on its behalf, refunds plus
\* creator payout plus platform fee, sum to no more than what was invested
\* into it.
C38_NoMoreOutThanIn ==
    \A id \in DOMAIN proposals : TransferredFor(id) <= TotalInvested(id)

\* C38 witness: a campaign with two investors was distributed, fee
\* included, and all that was invested into it has been transferred.
C38_Witness ==
    \E id \in DOMAIN proposals :
        /\ proposals[id].status = "Completed"
        /\ Cardinality(RecordHolders(id)) = 2
        /\ EmittedKind("platform_fee", id) = 1
        /\ EmittedKind("creator_payout", id) = 1
        /\ TransferredFor(id) = TotalInvested(id)

\* Deadlines before the current time: the first instant and the second
\* before now.
PastDeadlines == { t \in { 0, now - 1 } : 0 <= t /\ t < now }

\* C39: in every build, a create_proposal whose funding_deadline is before
\* the current time, made by a creator within the rate limit and the cap,
\* is rejected with FundingPeriodTooShort; the duration is not computed
\* with an underflow that aborts the call or wraps into a long duration.
C39_PastDeadlineIsTooShort ==
    \A overflow_checks \in OverflowChecks, sender \in Creators,
       terms \in TermsInputs, funding_deadline \in PastDeadlines :
        ( /\ record_operation(sender, "create_proposal").ok
          /\ MayLoad(creator_proposal_count, sender, 0) < MAX_PROPOSALS_PER_CREATOR )
        => execute_create_proposal_result(
               overflow_checks, sender, terms, funding_deadline)
               = "FundingPeriodTooShort"

\* C40: a rejected call leaves the window record of its pair, and the whole
\* store, as it was, so that rejections never extend the window; and
\* whatever was rejected before, the call of a pair made at or after
\* window_start + window_seconds is admitted and starts a window at now
\* with a count of 1.
C40_RejectionsLeaveTheWindow ==
    /\ [][ (last'.op = "record_operation" /\ last'.result # "Ok")
           => /\ user_operations' = user_operations
              /\ UNCHANGED << store, now >> ]_vars
    /\ [](\A user \in Investors :
              LET key == << user, RateOperation >>
                  limit == operation_limits[RateOperation]
              IN  ( /\ Has(user_operations, key)
                    /\ now >= user_operations[key].window_start
                                  + limit.window_seconds )
                  => /\ record_operation(user, RateOperation).ok
                     /\ record_operation(user, RateOperation).val[key]
                            = [window_start |-> now, operation_count |-> 1,
                               last_operation |-> now])

\* C40 witness: a call was rejected later than the last admitted call of
\* its pair, whose record is as that admitted call left it, and the window
\* ends at the next instant.
C40_Witness ==
    /\ last.op = "record_operation"
    /\ last.result = "RateLimitExceeded"
    /\ LET record == user_operations[<< last.sender, RateOperation >>]
       IN  /\ record.last_operation < now
           /\ record.window_start + RateWindow = now + 1
           /\ record.operation_count
                  >= operation_limits[RateOperation].max_per_window

====
